---- MODULE Spec2Model ----
(***************************************************************************)
(* Model of the pljusak weather widget (src/unnamed/part_003): the feed    *)
(* fetch cycle, the Geolocation object, the persisted selection, the       *)
(* LocationPicker dropdown and what renderSelectedStation puts on screen.  *)
(*                                                                         *)
(* Conventions                                                             *)
(*  - a JavaScript null is a record [null |-> TRUE] for record-valued      *)
(*    things, the string NULL for string-valued things and NullDistance    *)
(*    for the distance argument of render;                                 *)
(*  - latitudes and longitudes are tenths of a degree (45.8 is 458);       *)
(*    distances are metres, rounded, as haversineDistance computes them    *)
(*    for the coordinates of the model;                                    *)
(*  - temperatures are tenths of a degree Celsius;                         *)
(*  - lastEvent is a history variable: the handler that ran last, its      *)
(*    input, the selection renderSelectedStation read on entry (sel) and   *)
(*    the render function that handler called last (out).                  *)
(***************************************************************************)
EXTENDS Integers, Sequences, FiniteSets, TLC

\* ------------------------------------------------------------------ bounds

\* Longest podaci array the feed delivers.
MaxEntries == 2
\* Most getCurrentPosition calls that may be outstanding together.
MaxGeoRequests == 2
\* Most fetchWeatherData invocations that may be suspended together.
MaxFetches == 2
\* Most history entries the model lets the app push.
MaxHistory == 1
\* The clock advances MaxTicks times by TickMs milliseconds.
TickMs == 5001
MaxTicks == 1

\* ------------------------------------------------------------------ constants

NEAREST_LOCATION == "Najbliza"
NULL == "null"
NullRecord == [null |-> TRUE]
NaN == 0 - 1
NullDistance == 0 - 1
THROTTLE_MS == 5000
PERMISSION_DENIED == 1
\* Threshold for showing the distance warning, in km.
DISTANCE_WARNING_THRESHOLD == 20

MsgNoData == "Nema podataka o stanicama"
MsgDenied == "Lokacija je onemogucena. Omogucite lokaciju u postavkama uredjaja ili izaberite stanicu rucno."
MsgUnavailable == "Lokacija nije dostupna. Izaberite stanicu rucno."
MsgFetch(reason) == "Greska: " \o reason

\* error.message of each way the try block of fetchWeatherData throws
FailureAtFetch == {"Failed to fetch", "HTTP error"}
FailureAtText == {"Failed to fetch", "Invalid response format", "Failed to parse weather data"}

\* ------------------------------------------------------------------ feed

\* One row of podaci, reduced to the columns extractAllStations reads.
Row(name, lat, lon, temp) == [name |-> name, lat |-> lat, lon |-> lon, temperature |-> temp]

FeedRows ==
    { Row("A", "45.8", "15.9", "5.2"),
      Row("B", "45.8", "16.3", "5.2"),
      Row("B", "45.8", "16.3", "-"),
      Row("A", "", "15.9", "5.2"),
      Row("", "45.8", "15.9", "5.2") }

RECURSIVE SeqsUpTo(_, _)
SeqsUpTo(S, n) ==
    IF n = 0 THEN { <<>> }
    ELSE LET shorter == SeqsUpTo(S, n - 1)
         IN shorter \cup { Append(q, x) : q \in { r \in shorter : Len(r) = n - 1 }, x \in S }

Payloads == SeqsUpTo(FeedRows, MaxEntries)

\* Positions the platform reports for the user.
UserPositions == { [lat |-> 458, lon |-> 159], [lat |-> 458, lon |-> 163] }

\* JavaScript parseFloat on the strings of the feed.
parseFloat(str) ==
    CASE str = "45.8" -> 458
      [] str = "45.9" -> 459
      [] str = "15.9" -> 159
      [] str = "16.3" -> 163
      [] str = "5.2" -> 52
      [] str = "38" -> 380
      [] str = "80" -> 800
      [] str = "1" -> 10
      [] OTHER -> NaN

isNaN(x) == x = NaN
isFinite(x) == x # NaN

Abs(x) == IF x < 0 THEN 0 - x ELSE x

\* Haversine distance (Earth radius 6371 km) for the coordinates of the model,
\* in metres, rounded.
haversineDistance(lat1, lon1, lat2, lon2) ==
    LET dLat == Abs(lat2 - lat1)
        dLon == Abs(lon2 - lon1)
    IN  CASE dLat = 0 /\ dLon = 0 -> 0
          [] dLat = 1 /\ dLon = 0 -> 11119
          [] dLat = 0 /\ dLon = 4 /\ lat1 = 458 -> 31008
          [] dLat = 0 /\ dLon = 4 /\ lat1 = 459 -> 30953
          [] dLat = 1 /\ dLon = 4 -> 32916
          [] dLat = 10 /\ dLon = 0 -> 111195
          [] dLat = 10 /\ dLon = 4 -> 115512

\* Index of the entry named name in the insertion-ordered entries, 0 if absent.
IndexOf(entries, name) ==
    IF \E i \in 1..Len(entries) : entries[i].name = name
    THEN CHOOSE i \in 1..Len(entries) : entries[i].name = name
    ELSE 0

\* result[name] = station: a new key is appended, an existing key keeps its
\* place and takes the new value.
PutStation(entries, station) ==
    LET i == IndexOf(entries, station.name)
    IN  IF i = 0 THEN Append(entries, station) ELSE [entries EXCEPT ![i] = station]

RECURSIVE extractEntries(_, _)
extractEntries(podaci, result) ==
    IF podaci = <<>> THEN result
    ELSE LET entry == Head(podaci)
             tempStr == entry.temperature
             temperature == parseFloat(tempStr)
             lat == parseFloat(entry.lat)
             lon == parseFloat(entry.lon)
             skip == \/ entry.name = ""
                     \/ tempStr = "-" \/ tempStr = ""
                     \/ isNaN(temperature)
                     \/ ~isFinite(lat) \/ ~isFinite(lon)
         IN  extractEntries(Tail(podaci),
                 IF skip THEN result
                 ELSE PutStation(result, [name |-> entry.name, lat |-> lat, lon |-> lon,
                                          temperature |-> temperature]))

extractAllStations(podaci) == [entries |-> extractEntries(podaci, <<>>)]

ObjectKeys(stations) == { stations.entries[i].name : i \in 1..Len(stations.entries) }

Lookup(stations, name) ==
    LET i == IndexOf(stations.entries, name)
    IN  IF i = 0 THEN NullRecord ELSE stations.entries[i]

\* ------------------------------------------------------------------ numbers

\* The numbers of the map (scales, pans, client and SVG coordinates) are exact
\* fractions [n, d] in lowest terms with d > 0: the arithmetic of the code without
\* its rounding.
RECURSIVE GCD(_, _)
GCD(a, b) == IF b = 0 THEN a ELSE GCD(b, a % b)

Frac(n, d) ==
    LET g == GCD(Abs(n), Abs(d))
        s == IF d < 0 THEN 0 - 1 ELSE 1
    IN  [n |-> s * (n \div g), d |-> s * (d \div g)]

Num(n) == [n |-> n, d |-> 1]

LCM(a, b) == (a \div GCD(a, b)) * b

Plus(a, b) ==
    LET l == LCM(a.d, b.d)
    IN  Frac(a.n * (l \div a.d) + b.n * (l \div b.d), l)

Neg(a) == [n |-> 0 - a.n, d |-> a.d]

Minus(a, b) == Plus(a, Neg(b))

Times(a, b) ==
    LET g1 == GCD(Abs(a.n), b.d)
        g2 == GCD(Abs(b.n), a.d)
    IN  IF a.n = 0 \/ b.n = 0 THEN Num(0)
        ELSE [n |-> (a.n \div g1) * (b.n \div g2), d |-> (a.d \div g2) * (b.d \div g1)]

Over(a, b) ==
    Times(a, IF b.n < 0 THEN [n |-> 0 - b.d, d |-> 0 - b.n] ELSE [n |-> b.d, d |-> b.n])

Less(a, b) ==
    LET l == LCM(a.d, b.d)
    IN  a.n * (l \div a.d) < b.n * (l \div b.d)

LessEq(a, b) == a = b \/ Less(a, b)

MathMax(a, b) == IF Less(a, b) THEN b ELSE a
MathMin(a, b) == IF Less(b, a) THEN b ELSE a
MathAbs(a) == [n |-> Abs(a.n), d |-> a.d]

\* ------------------------------------------------------------------ state

VARIABLES
    cachedStations,   \* NullRecord, or [entries |-> stations in insertion order]
    fetchInProgress,  \* the in-flight flag of fetchWeatherData
    lastRefresh,      \* Date.now() at the start of the latest fetch
    now,              \* Date.now(), milliseconds since the page was loaded
    fetches,          \* suspended fetchWeatherData invocations: "fetch" | "text"
    Geolocation,      \* [status, coords, cancelledByUser]
    geoRequests,      \* getCurrentPosition calls that have not called back
    hasGeolocation,   \* 'geolocation' in navigator
    localStorage,     \* the item LOCATION_KEY, NULL when absent
    hidden,           \* element id -> its hidden attribute
    errorMessage,     \* text of #error-message while #error is shown, else ""
    options,          \* data-value of the station options of the dropdown
    rendered,         \* what render put on #weather while it is shown, else NullRecord
    history,          \* [depth: entries pushed, pending: history.back() not yet delivered]
    StationMap,       \* [zoom, highlight, tapped, drag, pinch, gestureOccurred, dots]
    pointer,          \* the mouse button and the fingers on the map, see InitialPointer
    fetchLog,         \* history variable: when and in which order fetches started
    lastEvent         \* history variable, see the head of the module

vars == << cachedStations, fetchInProgress, lastRefresh, now, fetches, Geolocation,
           geoRequests, hasGeolocation, localStorage, hidden, errorMessage, options,
           rendered, history, StationMap, pointer, fetchLog, lastEvent >>

ElementIds == { "weather", "error", "status", "toast", "location-dropdown",
                "map-modal", "map-tooltip", "station-label" }

\* The part of the state the synchronous helpers read and write, as one record.
Cur ==
    [ cachedStations |-> cachedStations, Geolocation |-> Geolocation,
      geoRequests |-> geoRequests, localStorage |-> localStorage, hidden |-> hidden,
      errorMessage |-> errorMessage, options |-> options, rendered |-> rendered,
      history |-> history, map |-> StationMap, pointer |-> pointer,
      sel |-> "-", out |-> "none" ]

Commit(s, op, arg) ==
    /\ cachedStations' = s.cachedStations
    /\ Geolocation' = s.Geolocation
    /\ geoRequests' = s.geoRequests
    /\ localStorage' = s.localStorage
    /\ hidden' = s.hidden
    /\ errorMessage' = s.errorMessage
    /\ options' = s.options
    /\ rendered' = s.rendered
    /\ history' = s.history
    /\ StationMap' = s.map
    /\ pointer' = IF s.hidden["map-modal"] THEN [s.pointer EXCEPT !.mouse = NullRecord]
                   ELSE s.pointer
    /\ lastEvent' = [op |-> op, arg |-> arg, sel |-> s.sel, out |-> s.out]

\* ------------------------------------------------------------------ storage

hasSelectedLocation(s) == s.localStorage # NULL

getSelectedLocation(s) ==
    IF s.localStorage = NULL \/ s.localStorage = "" THEN NEAREST_LOCATION ELSE s.localStorage

setSelectedLocation(s, location) == [s EXCEPT !.localStorage = location]

\* ------------------------------------------------------------------ view

show(s, id) == [s EXCEPT !.hidden[id] = FALSE]

\* The content of a hidden element is not observable, and render and renderError
\* write it again before they show the element: the model forgets it on hide.
hide(s, id) ==
    [s EXCEPT !.hidden[id] = TRUE,
              !.errorMessage = IF id = "error" THEN "" ELSE @,
              !.rendered = IF id = "weather" THEN NullRecord ELSE @]

\* The toast timer is set exactly while the toast is shown.
showToast(s) == show(s, "toast")
hideToast(s) == hide(s, "toast")

\* Mutant: render that warns at the threshold too.
renderWarnsAtThreshold(s, station, distance) ==
    [ show(hide(hide(s, "error"), "status"), "weather")
        EXCEPT !.rendered = [station |-> station, distance |-> distance,
                             distanceWarning |->
                                 /\ distance # NullDistance
                                 /\ distance >= DISTANCE_WARNING_THRESHOLD * 1000],
               !.out = "render" ]

\* distance is in metres; distanceWarning tells whether #distance-warning is shown.
render(s, station, distance) ==
    [ show(hide(hide(s, "error"), "status"), "weather")
        EXCEPT !.rendered = [station |-> station, distance |-> distance,
                             distanceWarning |->
                                 /\ distance # NullDistance
                                 /\ distance > DISTANCE_WARNING_THRESHOLD * 1000],
               !.out = "render" ]

renderError(s, message) ==
    [ show(hide(hide(s, "weather"), "status"), "error")
        EXCEPT !.errorMessage = message, !.out = "renderError" ]

renderStatus(s) == [ show(hide(s, "error"), "status") EXCEPT !.out = "renderStatus" ]

\* ------------------------------------------------------------------ stations

hasCoords(s) == s.Geolocation.coords # NullRecord

\* The scan of findNearestStation over entries[i..]: nearest is the name kept so
\* far (NULL for none), minDist its distance (NullDistance for Infinity).
RECURSIVE nearestScan(_, _, _, _, _, _)
nearestScan(entries, i, lat, lon, nearest, minDist) ==
    IF i > Len(entries) THEN [name |-> nearest, distance |-> minDist]
    ELSE LET station == entries[i]
         IN  IF ~isFinite(station.lat) \/ ~isFinite(station.lon)
             THEN nearestScan(entries, i + 1, lat, lon, nearest, minDist)
             ELSE LET dist == haversineDistance(lat, lon, station.lat, station.lon)
                  IN  IF minDist = NullDistance \/ dist < minDist
                      THEN nearestScan(entries, i + 1, lat, lon, station.name, dist)
                      ELSE nearestScan(entries, i + 1, lat, lon, nearest, minDist)

\* "return nearest ? ... : null": the empty name is as falsy as null.
findNearestStation(stations, lat, lon) ==
    LET found == nearestScan(stations.entries, 1, lat, lon, NULL, NullDistance)
    IN  IF found.name # NULL /\ found.name # "" THEN found ELSE NullRecord

\* Mutant: a named station is returned with its distance from the cached coordinates.
getStationForLocationMeasured(s, location) ==
    IF location = NEAREST_LOCATION
    THEN IF hasCoords(s)
         THEN LET nearest == findNearestStation(s.cachedStations, s.Geolocation.coords.lat,
                                                s.Geolocation.coords.lon)
              IN  IF nearest # NullRecord
                  THEN [station |-> Lookup(s.cachedStations, nearest.name),
                        distance |-> nearest.distance]
                  ELSE NullRecord
         ELSE NullRecord
    ELSE LET station == Lookup(s.cachedStations, location)
         IN  IF station = NullRecord THEN NullRecord
             ELSE [station |-> station,
                   distance |-> IF hasCoords(s)
                                THEN haversineDistance(s.Geolocation.coords.lat,
                                                       s.Geolocation.coords.lon,
                                                       station.lat, station.lon)
                                ELSE NullDistance]

getStationForLocation(s, location) ==
    IF location = NEAREST_LOCATION
    THEN IF hasCoords(s)
         THEN LET nearest == findNearestStation(s.cachedStations, s.Geolocation.coords.lat,
                                                s.Geolocation.coords.lon)
              IN  IF nearest # NullRecord
                  THEN [station |-> Lookup(s.cachedStations, nearest.name),
                        distance |-> nearest.distance]
                  ELSE NullRecord
         ELSE NullRecord
    ELSE LET station == Lookup(s.cachedStations, location)
         IN  IF station # NullRecord THEN [station |-> station, distance |-> NullDistance]
             ELSE NullRecord

\* ------------------------------------------------------------------ renderSelectedStation

\* Mutant: the fallback renders as 'Najbliza' and does not persist it.
renderSelectedStationKeepsMissing(s) ==
    IF s.cachedStations = NullRecord THEN s
    ELSE
    LET selectedLocation == getSelectedLocation(s)
        e == [s EXCEPT !.sel = selectedLocation]
        result == getStationForLocation(e, selectedLocation)
    IN  IF Len(s.cachedStations.entries) = 0 THEN renderError(s, MsgNoData)
        ELSE IF result = NullRecord /\ selectedLocation = NEAREST_LOCATION
        THEN IF e.Geolocation.status = "denied" THEN renderError(e, MsgDenied)
             ELSE IF e.Geolocation.status = "unavailable" THEN renderError(e, MsgUnavailable)
             ELSE renderStatus(e)
        ELSE IF result = NullRecord
        THEN LET again == getStationForLocation(e, NEAREST_LOCATION)
             IN  IF again = NullRecord THEN e
                 ELSE render(e, again.station, again.distance)
        ELSE render(e, result.station, result.distance)

renderSelectedStation(s) ==
    IF s.cachedStations = NullRecord THEN s
    ELSE
    LET selectedLocation == getSelectedLocation(s)
        e == [s EXCEPT !.sel = selectedLocation]
        result == getStationForLocation(e, selectedLocation)
    IN  IF Len(s.cachedStations.entries) = 0 THEN renderError(s, MsgNoData)
        ELSE IF result = NullRecord /\ selectedLocation = NEAREST_LOCATION
        THEN IF e.Geolocation.status = "denied" THEN renderError(e, MsgDenied)
             ELSE IF e.Geolocation.status = "unavailable" THEN renderError(e, MsgUnavailable)
             ELSE renderStatus(e)
        ELSE IF result = NullRecord
        THEN \* fall back to NEAREST_LOCATION: the selected station no longer exists
             LET f == setSelectedLocation(e, NEAREST_LOCATION)
                 again == getStationForLocation(f, NEAREST_LOCATION)
             IN  IF again = NullRecord THEN f
                 ELSE render(f, again.station, again.distance)
        ELSE render(e, result.station, result.distance)

\* ------------------------------------------------------------------ LocationPicker

isOpen(s) == ~s.hidden["location-dropdown"]

\* history.pushState
pushState(s) == [s EXCEPT !.history.depth = @ + 1]
\* history.back(): the popstate event is delivered later
historyBack(s) == [s EXCEPT !.history.pending = @ + 1]

LocationPickerOpen(s) == pushState(show(s, "location-dropdown"))

LocationPickerClose(s, popHistory) ==
    IF ~isOpen(s) THEN s
    ELSE LET closed == hide(s, "location-dropdown")
         IN  IF popHistory THEN historyBack(closed) ELSE closed

LocationPickerToggle(s) ==
    IF isOpen(s) THEN LocationPickerClose(s, TRUE) ELSE LocationPickerOpen(s)

LocationPickerPopulate(s, stationNames) ==
    [s EXCEPT !.options = {NEAREST_LOCATION} \cup stationNames]

\* ------------------------------------------------------------------ Geolocation

\* Geolocation.request(): no guard on the status or on an outstanding request.
GeolocationRequest(s) ==
    IF ~hasGeolocation THEN [s EXCEPT !.Geolocation.status = "unavailable"]
    ELSE [s EXCEPT !.geoRequests = @ + 1]

GeolocationRetry(s) ==
    GeolocationRequest([s EXCEPT !.Geolocation.status = "unknown",
                                 !.Geolocation.cancelledByUser = FALSE])

\* Mutant: the success callback caches the position and renders nothing.
GeolocationOnSuccessSilent(s, position) ==
    [s EXCEPT !.Geolocation.status = "granted", !.Geolocation.coords = position]

\* Mutant: the success callback selects 'Najbliza' whatever is stored.
GeolocationOnSuccessSelectsNearest(s, position) ==
    LET g == [s EXCEPT !.Geolocation.status = "granted", !.Geolocation.coords = position]
    IN  renderSelectedStation(setSelectedLocation(g, NEAREST_LOCATION))

\* Mutant: the success callback sets the status and caches no coordinates.
GeolocationOnSuccessWithoutCoords(s, position) ==
    LET g == [s EXCEPT !.Geolocation.status = "granted"]
        h == IF ~hasSelectedLocation(g) THEN setSelectedLocation(g, NEAREST_LOCATION) ELSE g
    IN  IF getSelectedLocation(h) = NEAREST_LOCATION THEN renderSelectedStation(h) ELSE h

\* The success callback of getCurrentPosition.
GeolocationOnSuccess(s, position) ==
    LET g == [s EXCEPT !.Geolocation.status = "granted", !.Geolocation.coords = position]
        h == IF ~hasSelectedLocation(g) THEN setSelectedLocation(g, NEAREST_LOCATION) ELSE g
    IN  IF getSelectedLocation(h) = NEAREST_LOCATION THEN renderSelectedStation(h) ELSE h

\* Mutant: the error callback drops the cached coordinates.
GeolocationOnErrorForgets(s, code) ==
    [s EXCEPT !.Geolocation.status =
                  IF code = PERMISSION_DENIED THEN "denied" ELSE "unavailable",
              !.Geolocation.coords = NullRecord]

\* The error callback of getCurrentPosition.
GeolocationOnError(s, code) ==
    LET g == [s EXCEPT !.Geolocation.status =
                  IF code = PERMISSION_DENIED THEN "denied" ELSE "unavailable"]
    IN  IF getSelectedLocation(g) = NEAREST_LOCATION /\ ~g.Geolocation.cancelledByUser
        THEN renderSelectedStation(g) ELSE g

\* error.code of a GeolocationPositionError
PositionErrors == << "PERMISSION_DENIED", "POSITION_UNAVAILABLE", "TIMEOUT" >>

\* The model lets a handler call Geolocation.request() only below the bound.
CanRequest == ~hasGeolocation \/ geoRequests < MaxGeoRequests

LocationPickerSelect(s, value) ==
    LET a == LocationPickerClose(setSelectedLocation(s, value), TRUE)
        b == IF value = NEAREST_LOCATION /\ ~hasCoords(a) THEN GeolocationRetry(a) ELSE a
    IN  renderSelectedStation(b)

\* ------------------------------------------------------------------ fetchWeatherData

\* What extractAllStations makes of the podaci arrays the feed may deliver.
ParsedFeeds == { extractAllStations(podaci) : podaci \in Payloads }

\* Mutant: an empty result does not replace the snapshot.
fetchSucceededKeepsLast(s, stations) ==
    LET a == IF Len(stations.entries) = 0 /\ s.cachedStations # NullRecord THEN s
             ELSE [s EXCEPT !.cachedStations = stations]
        b == LocationPickerPopulate(hideToast(a), ObjectKeys(a.cachedStations))
    IN  renderSelectedStation(GeolocationRequest(b))

\* The try block after both awaits; stations is extractAllStations(podaci).
fetchSucceeded(s, stations) ==
    LET a == [s EXCEPT !.cachedStations = stations]
        b == LocationPickerPopulate(hideToast(a), ObjectKeys(a.cachedStations))
    IN  renderSelectedStation(GeolocationRequest(b))

\* Mutant: the catch block renders the error whether or not a snapshot exists.
fetchFailedBlocking(s, message) == renderError(s, MsgFetch(message))

\* The catch block.
fetchFailed(s, message) ==
    IF s.cachedStations # NullRecord THEN showToast(s)
    ELSE renderError(s, MsgFetch(message))

\* Mutant: fetchWeatherData without the in-flight check.
fetchWeatherDataUnguarded ==
    /\ fetchInProgress' = TRUE
    /\ lastRefresh' = now
    /\ fetches' = Append(fetches, "fetch")
    /\ fetchLog' = [fetchLog EXCEPT !.at = now]

\* Mutant: refreshIfStale without the throttle.
refreshIfStaleUnthrottled ==
    /\ Len(fetches) < MaxFetches
    /\ IF fetchInProgress
       THEN UNCHANGED << fetchInProgress, lastRefresh, fetches, fetchLog >>
       ELSE /\ fetchInProgress' = TRUE
            /\ lastRefresh' = now
            /\ fetches' = Append(fetches, "fetch")
            /\ fetchLog' = [fetchLog EXCEPT !.at = now]
    /\ lastEvent' = [op |-> "refreshIfStale",
                     arg |-> IF fetchInProgress THEN "skipped" ELSE "started",
                     sel |-> "-", out |-> "none"]
    /\ UNCHANGED << cachedStations, Geolocation, geoRequests, localStorage, hidden,
                    errorMessage, options, rendered, history, StationMap, pointer,
                    now, hasGeolocation >>

\* fetchWeatherData() up to its first await.
fetchWeatherData ==
    IF fetchInProgress
    THEN UNCHANGED << fetchInProgress, lastRefresh, fetches, fetchLog >>
    ELSE /\ fetchInProgress' = TRUE
         /\ lastRefresh' = now
         /\ fetches' = Append(fetches, "fetch")
         /\ fetchLog' = [fetchLog EXCEPT !.at = now]

\* History variable of a step that calls fetchWeatherData: whether the call
\* found a fetch in progress.
Called(op) ==
    [op |-> op, arg |-> IF fetchInProgress THEN "skipped" ELSE "started",
     sel |-> "-", out |-> "none"]

Without(q, i) == SubSeq(q, 1, i - 1) \o SubSeq(q, i + 1, Len(q))

ViewVars == << cachedStations, Geolocation, geoRequests, localStorage, hidden,
               errorMessage, options, rendered, history, StationMap, pointer >>

\* ------------------------------------------------------------------ StationMap

\* StationMap.config.  Latitudes and longitudes are tenths of a degree here too.
latCorrection == Frac(17, 20)
originalWidth == 610
viewBoxHeight == 476
viewBox == [width |-> Times(Num(originalWidth), latCorrection), height |-> Num(viewBoxHeight)]
bounds == [minLon |-> Num(132), maxLon |-> Num(196), minLat |-> Num(422), maxLat |-> Num(467)]
snapDistance == 20
minZoom == 1
maxZoom == 6
zoomFactor == Frac(21, 20)
MOUSE_MOVE_THRESHOLD == 5
TOUCH_MOVE_THRESHOLD == 10

\* getBoundingClientRect() of #station-map: the map is laid out at two CSS pixels
\* per unit of the viewBox, its corner at the origin of the client area.
Rect == [left |-> Num(0), top |-> Num(0),
         width |-> Times(Num(2), viewBox.width), height |-> Times(Num(2), viewBox.height)]

isZoomed(s) == Less(Num(1), s.map.zoom.scale)
isDragging(s) == s.map.drag # NullRecord /\ s.map.drag.moved
isPinching(s) == s.map.pinch # NullRecord

latLonToBase(lat, lon) ==
    [x |-> Times(Over(Minus(lon, bounds.minLon), Minus(bounds.maxLon, bounds.minLon)),
                 viewBox.width),
     y |-> Times(Over(Minus(bounds.maxLat, lat), Minus(bounds.maxLat, bounds.minLat)),
                 viewBox.height)]

latLonToSvg(s, lat, lon) ==
    LET base == latLonToBase(lat, lon)
    IN  [x |-> Times(Minus(base.x, s.map.zoom.x), s.map.zoom.scale),
         y |-> Times(Minus(base.y, s.map.zoom.y), s.map.zoom.scale)]

\* Mutant: svgToLatLon that leaves the pan out.
svgToLatLonUnpanned(s, x, y) ==
    LET baseX == Over(x, s.map.zoom.scale)
        baseY == Over(y, s.map.zoom.scale)
    IN  [lon |-> Plus(Times(Over(baseX, viewBox.width),
                            Minus(bounds.maxLon, bounds.minLon)), bounds.minLon),
         lat |-> Minus(bounds.maxLat,
                       Times(Over(baseY, viewBox.height),
                             Minus(bounds.maxLat, bounds.minLat)))]

svgToLatLon(s, x, y) ==
    LET baseX == Plus(Over(x, s.map.zoom.scale), s.map.zoom.x)
        baseY == Plus(Over(y, s.map.zoom.scale), s.map.zoom.y)
    IN  [lon |-> Plus(Times(Over(baseX, viewBox.width),
                            Minus(bounds.maxLon, bounds.minLon)), bounds.minLon),
         lat |-> Minus(bounds.maxLat,
                       Times(Over(baseY, viewBox.height),
                             Minus(bounds.maxLat, bounds.minLat)))]

\* client is [clientX, clientY] of the mouse event or of its first touch.
eventToSvg(client) ==
    [x |-> Times(Over(Minus(client.clientX, Rect.left), Rect.width), viewBox.width),
     y |-> Times(Over(Minus(client.clientY, Rect.top), Rect.height), viewBox.height)]

\* Mutant: clampPan that leaves the pan as it is.
clampPanOff(s) == s

clampPan(s) ==
    LET visibleWidth == Over(viewBox.width, s.map.zoom.scale)
        visibleHeight == Over(viewBox.height, s.map.zoom.scale)
    IN  [s EXCEPT
           !.map.zoom.x = MathMax(Num(0), MathMin(@, Minus(viewBox.width, visibleWidth))),
           !.map.zoom.y = MathMax(Num(0), MathMin(@, Minus(viewBox.height, visibleHeight)))]

resetZoom(s) == [s EXCEPT !.map.zoom = [scale |-> Num(1), x |-> Num(0), y |-> Num(0)]]

\* A dot of the map carries the station's name; showLabel finds the dot of the
\* tapped station or does nothing.
showLabel(s, stationName) ==
    IF stationName \in s.map.dots THEN show(s, "station-label") ELSE s

hideLabel(s) == hide(s, "station-label")

showTooltip(s) == show(s, "map-tooltip")
hideTooltip(s) == hide(s, "map-tooltip")

\* The dots and the outline are drawn from zoom; the label follows its dot.
updatePositions(s) ==
    IF s.map.tapped # NULL THEN showLabel(s, s.map.tapped) ELSE s

\* Mutant: zoomTo that keeps the old pan.
zoomToKeepsPan(s, newScale, centerX, centerY) ==
    LET clamped == MathMax(Num(minZoom), MathMin(Num(maxZoom), newScale))
    IN  IF clamped = s.map.zoom.scale THEN s
        ELSE updatePositions(clampPan([s EXCEPT !.map.zoom.scale = clamped]))

zoomTo(s, newScale, centerX, centerY) ==
    LET oldScale == s.map.zoom.scale
        clamped == MathMax(Num(minZoom), MathMin(Num(maxZoom), newScale))
        baseX == Plus(Over(centerX, oldScale), s.map.zoom.x)
        baseY == Plus(Over(centerY, oldScale), s.map.zoom.y)
    IN  IF clamped = oldScale THEN s
        ELSE updatePositions(clampPan(
                 [s EXCEPT !.map.zoom.scale = clamped,
                           !.map.zoom.x = Minus(baseX, Over(centerX, clamped)),
                           !.map.zoom.y = Minus(baseY, Over(centerY, clamped))]))

\* The scan of findNearestWithinSnap over entries[i..]; minDist is in metres.
RECURSIVE snapScan(_, _, _, _, _, _)
snapScan(entries, i, lat, lon, nearest, minDist) ==
    IF i > Len(entries) THEN nearest
    ELSE LET station == entries[i]
         IN  IF ~isFinite(station.lat) \/ ~isFinite(station.lon)
             THEN snapScan(entries, i + 1, lat, lon, nearest, minDist)
             ELSE LET dist == Num(haversineDistance(lat.n, lon.n, station.lat, station.lon))
                  IN  IF Less(dist, minDist)
                      THEN snapScan(entries, i + 1, lat, lon, station.name, dist)
                      ELSE snapScan(entries, i + 1, lat, lon, nearest, minDist)

\* lat and lon are whole tenths of a degree wherever the model calls this.
findNearestWithinSnap(s, lat, lon) ==
    IF s.cachedStations = NullRecord THEN NULL
    ELSE snapScan(s.cachedStations.entries, 1, lat, lon, NULL,
                  Over(Num(snapDistance * 1000), s.map.zoom.scale))

\* Sets highlight to the station it returns in the code.
updateHighlight(s, svgX, svgY) ==
    LET at == svgToLatLon(s, svgX, svgY)
    IN  [s EXCEPT !.map.highlight = findNearestWithinSnap(s, at.lat, at.lon)]

clearHighlight(s) == [s EXCEPT !.map.highlight = NULL]

clearTapped(s) == hideLabel([s EXCEPT !.map.tapped = NULL])

StationMapIsOpen(s) == ~s.hidden["map-modal"]

renderStations(s) ==
    IF s.cachedStations = NullRecord THEN s
    ELSE [s EXCEPT !.map.dots =
             { s.cachedStations.entries[i].name : i \in
                 { j \in 1..Len(s.cachedStations.entries) :
                     /\ isFinite(s.cachedStations.entries[j].lat)
                     /\ isFinite(s.cachedStations.entries[j].lon) } }]

\* history.replaceState leaves the number of entries as it is.
openModal(s, replaceState) ==
    LET opened == show(renderStations(resetZoom(s)), "map-modal")
    IN  IF replaceState THEN opened ELSE pushState(opened)

closeModal(s, popHistory) ==
    IF ~StationMapIsOpen(s) THEN s
    ELSE LET closed ==
                 resetZoom(clearTapped(clearHighlight(hideTooltip(hide(s, "map-modal")))))
         IN  IF popHistory THEN historyBack(closed) ELSE closed

\* Mutant: selectStation without the isDragging check.
selectStationWhileDragging(s, stationName) ==
    closeModal(LocationPickerSelect(s, stationName), TRUE)

selectStation(s, stationName) ==
    IF isDragging(s) THEN s
    ELSE closeModal(LocationPickerSelect(s, stationName), TRUE)

\* Mutant: every tap on a station selects it.
handleTapSelects(s, stationName) == selectStation(hideTooltip(s), stationName)

handleTap(s, stationName) ==
    LET h == hideTooltip(s)
    IN  IF h.map.tapped = stationName THEN selectStation(h, stationName)
        ELSE showLabel([clearTapped(h) EXCEPT !.map.tapped = stationName], stationName)

\* ------------------------------------------------------------------ mouse on the map

mouseOnDown(s, client) ==
    IF isZoomed(s)
    THEN [s EXCEPT !.map.drag = [startX |-> client.clientX, startY |-> client.clientY,
                                 initialX |-> s.map.zoom.x, initialY |-> s.map.zoom.y,
                                 moved |-> FALSE],
                   !.pointer.upListener = TRUE]
    ELSE s

\* setTimeout(() => { map.drag = null; }, 0)
mouseOnDocumentUp(s) == [s EXCEPT !.pointer.upListener = FALSE, !.pointer.timer = TRUE]

\* The pan of a drag whose pointer is at client; threshold is in CSS pixels.
dragTo(s, client, threshold) ==
    LET drag == s.map.drag
        scale == s.map.zoom.scale
        deltaX == Over(Times(Over(Minus(client.clientX, drag.startX), Rect.width),
                             viewBox.width), scale)
        deltaY == Over(Times(Over(Minus(client.clientY, drag.startY), Rect.height),
                             viewBox.height), scale)
        moved == \/ Less(Num(threshold), MathAbs(Minus(client.clientX, drag.startX)))
                 \/ Less(Num(threshold), MathAbs(Minus(client.clientY, drag.startY)))
    IN  updatePositions(clampPan(
            [s EXCEPT !.map.drag.moved = IF moved THEN TRUE ELSE @,
                      !.map.zoom.x = Minus(drag.initialX, deltaX),
                      !.map.zoom.y = Minus(drag.initialY, deltaY)]))

mouseOnMove(s, client) ==
    IF s.map.drag # NullRecord
    THEN hideTooltip(dragTo(s, client, MOUSE_MOVE_THRESHOLD))
    ELSE LET at == eventToSvg(client)
             h == updateHighlight(s, at.x, at.y)
         IN  IF h.map.highlight # NULL THEN showTooltip(h) ELSE hideTooltip(h)

mouseOnClick(s) ==
    IF isDragging(s) THEN s
    ELSE IF s.map.highlight # NULL THEN selectStation(s, s.map.highlight)
    ELSE s

mouseOnLeave(s) == hideTooltip(clearHighlight(s))

\* zoomIn is event.deltaY < 0.
mouseOnWheel(s, client, zoomIn) ==
    LET newScale == IF zoomIn THEN Times(s.map.zoom.scale, zoomFactor)
                    ELSE Over(s.map.zoom.scale, zoomFactor)
        at == eventToSvg(client)
    IN  zoomTo(s, newScale, at.x, at.y)

\* ------------------------------------------------------------------ touch on the map

\* Math.sqrt(dx * dx + dy * dy) for two fingers on one horizontal or vertical line.
getDistance(touches) ==
    LET dx == Minus(touches[1].clientX, touches[2].clientX)
        dy == Minus(touches[1].clientY, touches[2].clientY)
    IN  CASE dy = Num(0) -> MathAbs(dx)
          [] dx = Num(0) -> MathAbs(dy)

getCenter(touches) ==
    [clientX |-> Over(Plus(touches[1].clientX, touches[2].clientX), Num(2)),
     clientY |-> Over(Plus(touches[1].clientY, touches[2].clientY), Num(2))]

touchOnStart(s, touches) ==
    IF Len(touches) = 2
    THEN [s EXCEPT !.map.drag = NullRecord,
                   !.map.pinch = [initialDistance |-> getDistance(touches),
                                  initialScale |-> s.map.zoom.scale,
                                  initialX |-> s.map.zoom.x,
                                  initialY |-> s.map.zoom.y,
                                  initialCenter |-> getCenter(touches)]]
    ELSE IF Len(touches) = 1 /\ isZoomed(s)
    THEN [s EXCEPT !.map.drag = [startX |-> touches[1].clientX,
                                 startY |-> touches[1].clientY,
                                 initialX |-> s.map.zoom.x, initialY |-> s.map.zoom.y,
                                 moved |-> FALSE]]
    ELSE s

touchOnMove(s, touches) ==
    IF Len(touches) = 2 /\ s.map.pinch # NullRecord
    THEN LET pinch == s.map.pinch
             scaleChange == Over(getDistance(touches), pinch.initialDistance)
             newScale == MathMax(Num(minZoom),
                                 MathMin(Num(maxZoom), Times(pinch.initialScale, scaleChange)))
             center == getCenter(touches)
             centerDeltaX == Times(Over(Minus(center.clientX, pinch.initialCenter.clientX),
                                        Rect.width), viewBox.width)
             centerDeltaY == Times(Over(Minus(center.clientY, pinch.initialCenter.clientY),
                                        Rect.height), viewBox.height)
             initialCenterX == Times(Over(Minus(pinch.initialCenter.clientX, Rect.left),
                                          Rect.width), viewBox.width)
             initialCenterY == Times(Over(Minus(pinch.initialCenter.clientY, Rect.top),
                                          Rect.height), viewBox.height)
             baseCenterX == Plus(Over(initialCenterX, pinch.initialScale), pinch.initialX)
             baseCenterY == Plus(Over(initialCenterY, pinch.initialScale), pinch.initialY)
             newScreenX == Plus(initialCenterX, centerDeltaX)
             newScreenY == Plus(initialCenterY, centerDeltaY)
         IN  updatePositions(clampPan(
                 [s EXCEPT !.map.zoom.scale = newScale,
                           !.map.zoom.x = Minus(baseCenterX, Over(newScreenX, newScale)),
                           !.map.zoom.y = Minus(baseCenterY, Over(newScreenY, newScale))]))
    ELSE IF Len(touches) = 1 /\ s.map.drag # NullRecord
    THEN dragTo(s, touches[1], TOUCH_MOVE_THRESHOLD)
    ELSE s

\* The touchmove listener of init().
touchMoveListener(s, touches) ==
    IF Len(touches) = 2 \/ (Len(touches) = 1 /\ s.map.drag # NullRecord)
    THEN touchOnMove(s, touches)
    ELSE s

\* Mutant: touch.onEnd that keeps gestureOccurred when the last finger is lifted.
touchOnEndKeepsGesture(s, touches, changed) ==
    LET a == IF isPinching(s) \/ isDragging(s) THEN [s EXCEPT !.map.gestureOccurred = TRUE]
             ELSE s
        b == IF Len(touches) < 2 THEN [a EXCEPT !.map.pinch = NullRecord] ELSE a
    IN  IF Len(touches) # 0 THEN b ELSE [b EXCEPT !.map.drag = NullRecord]

\* touch.onEnd that marks a gesture for a drag only, not for a pinch.
touchOnEndForgetsPinch(s, touches, changed) ==
    LET a == IF isDragging(s) THEN [s EXCEPT !.map.gestureOccurred = TRUE] ELSE s
        b == IF Len(touches) < 2 THEN [a EXCEPT !.map.pinch = NullRecord] ELSE a
    IN  IF Len(touches) # 0 THEN b
        ELSE LET wasGesture == b.map.gestureOccurred
                 c == [b EXCEPT !.map.drag = NullRecord, !.map.gestureOccurred = FALSE]
                 at == eventToSvg(changed)
                 geo == svgToLatLon(c, at.x, at.y)
                 tappedNear == findNearestWithinSnap(c, geo.lat, geo.lon)
             IN  IF wasGesture THEN c
                 ELSE IF tappedNear # NULL THEN handleTap(c, tappedNear)
                 ELSE clearTapped(c)

\* touches are the fingers still down, changed is the finger that was lifted.
touchOnEnd(s, touches, changed) ==
    LET a == IF isPinching(s) \/ isDragging(s) THEN [s EXCEPT !.map.gestureOccurred = TRUE]
             ELSE s
        b == IF Len(touches) < 2 THEN [a EXCEPT !.map.pinch = NullRecord] ELSE a
    IN  IF Len(touches) # 0 THEN b
        ELSE LET wasGesture == b.map.gestureOccurred
                 c == [b EXCEPT !.map.drag = NullRecord, !.map.gestureOccurred = FALSE]
                 at == eventToSvg(changed)
                 geo == svgToLatLon(c, at.x, at.y)
                 tappedNear == findNearestWithinSnap(c, geo.lat, geo.lon)
             IN  IF wasGesture THEN c
                 ELSE IF tappedNear # NULL THEN handleTap(c, tappedNear)
                 ELSE clearTapped(c)

\* ------------------------------------------------------------------ actions

\* setInterval(fetchWeatherData, REFRESH_INTERVAL)
Timer ==
    /\ Len(fetches) < MaxFetches
    /\ fetchWeatherData
    /\ lastEvent' = Called("timer")
    /\ UNCHANGED << ViewVars, now, hasGeolocation >>

\* A tap on #condition-container: fetchWeatherData, then the document click
\* listener closes the dropdown.
TapCondition ==
    /\ Len(fetches) < MaxFetches
    /\ fetchWeatherData
    /\ Commit(LocationPickerClose(Cur, TRUE), "tap", Called("tap").arg)
    /\ UNCHANGED << now, hasGeolocation >>

\* visibilitychange (visible), pageshow, focus
refreshIfStale ==
    /\ Len(fetches) < MaxFetches
    /\ IF now - lastRefresh > THROTTLE_MS
       THEN /\ fetchWeatherData
            /\ lastEvent' = Called("refreshIfStale")
       ELSE /\ UNCHANGED << fetchInProgress, lastRefresh, fetches, fetchLog >>
            /\ lastEvent' = [op |-> "refreshIfStale", arg |-> "throttled",
                             sel |-> "-", out |-> "none"]
    /\ UNCHANGED << ViewVars, now, hasGeolocation >>

\* Mutant: the end of a fetch that leaves fetchInProgress as it is.
FetchEndsKeepsFlag(i) ==
    /\ fetches' = Without(fetches, i)
    /\ UNCHANGED fetchInProgress

\* finally: fetchInProgress = false
FetchEnds(i) ==
    /\ fetches' = Without(fetches, i)
    /\ fetchInProgress' = FALSE

\* await fetch(fetchUrl) settles: rejected, a response that is not ok, or ok.
FetchSettles ==
    \E i \in 1..Len(fetches) :
        /\ fetches[i] = "fetch"
        /\ \/ \E message \in FailureAtFetch :
                /\ Commit(fetchFailed(Cur, message), "fetchFailed", message)
                /\ FetchEnds(i)
           \/ /\ fetches' = [fetches EXCEPT ![i] = "text"]
              /\ Commit(Cur, "other", "")
              /\ UNCHANGED fetchInProgress
        /\ UNCHANGED << lastRefresh, now, hasGeolocation, fetchLog >>

\* await response.text() settles: rejected, no podaci array, invalid JSON, rows
\* that are no arrays, or a podaci array.
TextSettles ==
    \E i \in 1..Len(fetches) :
        /\ fetches[i] = "text"
        /\ \/ \E message \in FailureAtText :
                Commit(fetchFailed(Cur, message), "fetchFailed", message)
           \/ \E stations \in ParsedFeeds :
                /\ CanRequest
                /\ Commit(fetchSucceeded(Cur, stations), "fetchSucceeded",
                          IF Len(stations.entries) = 0 THEN "empty" ELSE "stations")
        /\ FetchEnds(i)
        /\ UNCHANGED << lastRefresh, now, hasGeolocation, fetchLog >>

NoFetchChange ==
    UNCHANGED << fetchInProgress, lastRefresh, now, fetches, hasGeolocation, fetchLog >>

GeoSuccess ==
    /\ geoRequests > 0
    /\ \E position \in UserPositions :
         Commit(GeolocationOnSuccess([Cur EXCEPT !.geoRequests = @ - 1], position),
                "geoSuccess", "")
    /\ NoFetchChange

GeoError ==
    /\ geoRequests > 0
    /\ \E code \in DOMAIN PositionErrors :
         Commit(GeolocationOnError([Cur EXCEPT !.geoRequests = @ - 1], code),
                "geoError", PositionErrors[code])
    /\ NoFetchChange

\* A click on an option of the open dropdown (or Enter on the focused option).
Select ==
    /\ isOpen(Cur)
    /\ \E value \in options :
         /\ value = NEAREST_LOCATION /\ ~hasCoords(Cur) => CanRequest
         /\ Commit(LocationPickerSelect(Cur, value), "select", value)
    /\ NoFetchChange

\* A click on #location-trigger.
ToggleDropdown ==
    /\ isOpen(Cur) \/ history.depth < MaxHistory
    /\ Commit(LocationPickerToggle(Cur), "other", "")
    /\ NoFetchChange

\* A click outside the picker, or Escape.
CloseDropdown ==
    /\ isOpen(Cur)
    /\ Commit(LocationPickerClose(Cur, TRUE), "other", "")
    /\ NoFetchChange

\* A click on #status-cancel.
Cancel ==
    /\ ~hidden["status"]
    /\ history.depth < MaxHistory
    /\ Commit(LocationPickerOpen(hide([Cur EXCEPT !.Geolocation.cancelledByUser = TRUE],
                                      "status")), "cancel", "")
    /\ NoFetchChange

\* A click on #toast-dismiss (then the document click listener), or the toast timer.
ToastDismiss ==
    /\ ~hidden["toast"]
    /\ Commit(LocationPickerClose(hideToast(Cur), TRUE), "other", "")
    /\ NoFetchChange

ToastTimeout ==
    /\ ~hidden["toast"]
    /\ Commit(hideToast(Cur), "other", "")
    /\ NoFetchChange

\* The popstate listener: closes what is open without touching the history.
onPopstate(s) ==
    IF StationMapIsOpen(s) THEN closeModal(s, FALSE)
    ELSE LocationPickerClose(s, FALSE)

\* Delivery of the popstate of an earlier history.back().
Popstate ==
    /\ history.pending > 0
    /\ history.depth > 0
    /\ Commit(onPopstate([Cur EXCEPT !.history.pending = @ - 1, !.history.depth = @ - 1]),
              "other", "")
    /\ NoFetchChange

\* The user presses the back button (not while the popstate of a history.back()
\* is still to be delivered).
BackButton ==
    /\ history.depth > 0
    /\ history.pending = 0
    /\ Commit(onPopstate([Cur EXCEPT !.history.depth = @ - 1]), "other", "")
    /\ NoFetchChange

\* Time passes: by the throttle gap exactly, or by just over it.
Tick ==
    /\ \E ms \in { THROTTLE_MS, TickMs } :
         /\ now + ms <= MaxTicks * TickMs
         /\ now' = now + ms
    /\ lastEvent' = [op |-> "other", arg |-> "", sel |-> "-", out |-> "none"]
    /\ UNCHANGED << ViewVars, fetchInProgress, lastRefresh, fetches, hasGeolocation,
                    fetchLog >>

\* ------------------------------------------------------------------ map events

\* Most events that may move the viewport in one behaviour: of the mouse, of the
\* fingers, and direct calls of zoomTo.
MaxMouseGestures == 3
MaxTouchGestures == 2
MaxZoomCalls == 2
\* Most fingers on the map at a time.
MaxFingers == 2

\* Places on the map the pointers are put on: station A, station B and a place
\* more than 100 km from both.
GeoTargets ==
    { [lat |-> Num(458), lon |-> Num(159)],
      [lat |-> Num(458), lon |-> Num(163)],
      [lat |-> Num(448), lon |-> Num(159)] }

\* Displacements of the pointer from the place of its press, in CSS pixels.
MouseOffsets == { << 5, 0 - 5 >>, << 0, 6 >> }
TouchOffsets == { << 10, 0 - 10 >>, << 0 - 11, 0 >> }
\* Distances of the second finger of a pinch from the first, to its right.
PinchSpans == { 100, 200 }

\* The client position at which the place g is drawn.
ClientOf(s, g) ==
    LET svg == latLonToSvg(s, g.lat, g.lon)
    IN  [clientX |-> Plus(Rect.left, Times(Over(svg.x, viewBox.width), Rect.width)),
         clientY |-> Plus(Rect.top, Times(Over(svg.y, viewBox.height), Rect.height))]

Shifted(client, offset) ==
    [clientX |-> Plus(client.clientX, Num(offset[1])),
     clientY |-> Plus(client.clientY, Num(offset[2]))]

\* client lies on #station-map.
Inside(client) ==
    /\ LessEq(Rect.left, client.clientX)
    /\ LessEq(client.clientX, Plus(Rect.left, Rect.width))
    /\ LessEq(Rect.top, client.clientY)
    /\ LessEq(client.clientY, Plus(Rect.top, Rect.height))

\* The place drawn at client is one of GeoTargets.
OnTarget(s, client) ==
    LET at == eventToSvg(client)
        geo == svgToLatLon(s, at.x, at.y)
    IN  [lat |-> geo.lat, lon |-> geo.lon] \in GeoTargets

\* The station whose dot is centred at client, NULL if there is none: the
\* pointers of the model are on the centre of a dot or off every dot.
dotUnder(s, client) ==
    LET at == eventToSvg(client)
        hit == { i \in 1..Len(s.cachedStations.entries) :
                   /\ s.cachedStations.entries[i].name \in s.map.dots
                   /\ isFinite(s.cachedStations.entries[i].lat)
                   /\ isFinite(s.cachedStations.entries[i].lon)
                   /\ latLonToSvg(s, Num(s.cachedStations.entries[i].lat),
                                  Num(s.cachedStations.entries[i].lon)) = at }
    IN  IF s.cachedStations = NullRecord \/ hit = {} THEN NULL
        ELSE s.cachedStations.entries[CHOOSE i \in hit : TRUE].name

\* The user acts on the open map, after the timeout of the last mouseup has run.
MapInput == StationMapIsOpen(Cur) /\ ~pointer.timer

Gesture(s) == [s EXCEPT !.pointer.gestures = @ + 1]

\* "Izaberi na karti..." in the open dropdown, by click or by Enter.
ShowMap ==
    /\ isOpen(Cur) /\ ~StationMapIsOpen(Cur)
    /\ Commit(openModal(LocationPickerClose(Cur, FALSE), TRUE), "showMap", "")
    /\ NoFetchChange

\* mousemove on the map, the button up or down.
MouseMove ==
    /\ MapInput /\ pointer.device = "mouse"
    /\ StationMap.drag # NullRecord => pointer.gestures < MaxMouseGestures
    /\ \E g \in GeoTargets :
         LET client == ClientOf(Cur, g)
             moved == [Cur EXCEPT !.pointer.mouse = client]
         IN  /\ Inside(client)
             /\ client # pointer.mouse
             /\ Commit(mouseOnMove(IF StationMap.drag # NullRecord THEN Gesture(moved)
                                   ELSE moved, client),
                       "mouseMove", "")
    /\ NoFetchChange

\* mousemove during a drag, to a displacement from the place of the press.
MouseDrag ==
    /\ MapInput /\ pointer.mouseDown /\ StationMap.drag # NullRecord
    /\ pointer.gestures < MaxMouseGestures
    /\ \E offset \in MouseOffsets :
         LET client == Shifted([clientX |-> StationMap.drag.startX,
                                clientY |-> StationMap.drag.startY], offset)
         IN  /\ Inside(client)
             /\ Commit(mouseOnMove(Gesture([Cur EXCEPT !.pointer.mouse = client]), client),
                       "mouseDrag", "")
    /\ NoFetchChange

MouseDown ==
    /\ MapInput /\ pointer.mouse # NullRecord /\ ~pointer.mouseDown
    /\ Commit(mouseOnDown([Cur EXCEPT !.pointer.mouseDown = TRUE], pointer.mouse),
              "mouseDown", "")
    /\ NoFetchChange

\* mouseup, then the click it completes: on the dot under the pointer, on the map
\* and on the modal, in this order.  Off the map, or with the map closed, the
\* listener on the document is all that runs.
MouseUp ==
    /\ pointer.mouseDown /\ ~pointer.timer
    /\ LET released == [Cur EXCEPT !.pointer.mouseDown = FALSE]
           up == IF pointer.upListener THEN mouseOnDocumentUp(released) ELSE released
           dot == dotUnder(up, pointer.mouse)
           onDot == IF dot # NULL THEN selectStation(up, dot) ELSE up
       IN  IF StationMapIsOpen(Cur) /\ pointer.mouse # NullRecord
           THEN Commit(mouseOnClick(onDot), "click", "")
           ELSE Commit(up, "mouseUp", "")
    /\ NoFetchChange

\* The timeout of onDocumentUp.
DragTimeout ==
    /\ pointer.timer
    /\ Commit([Cur EXCEPT !.map.drag = NullRecord, !.pointer.timer = FALSE],
              "dragTimeout", "")
    /\ NoFetchChange

MouseLeave ==
    /\ MapInput /\ pointer.mouse # NullRecord
    /\ Commit(mouseOnLeave([Cur EXCEPT !.pointer.mouse = NullRecord]), "mouseLeave", "")
    /\ NoFetchChange

Wheel ==
    /\ MapInput /\ pointer.mouse # NullRecord
    /\ pointer.gestures < MaxMouseGestures
    /\ \E zoomIn \in BOOLEAN :
         Commit(mouseOnWheel(Gesture(Cur), pointer.mouse, zoomIn), "wheel", "")
    /\ NoFetchChange

\* A finger goes down: the first on a place of GeoTargets, a further one to the
\* right of a first that is on such a place.
TouchStart ==
    /\ MapInput /\ pointer.device = "touch"
    /\ Len(pointer.touches) < MaxFingers
    /\ pointer.touches # << >> => OnTarget(Cur, pointer.touches[1])
    /\ \E client \in IF pointer.touches = << >>
                     THEN { ClientOf(Cur, g) : g \in GeoTargets }
                     ELSE { Shifted(pointer.touches[1], << span, 0 >>) : span \in PinchSpans } :
         LET touches == Append(pointer.touches, client)
         IN  /\ Inside(client)
             /\ Commit(touchOnStart([Cur EXCEPT !.pointer.touches = touches,
                                                 !.pointer.sequence =
                                                     IF Len(touches) >= 2 THEN "gesture"
                                                     ELSE IF @ = "none" THEN "plain" ELSE @],
                                     touches),
                       "touchStart", "")
    /\ NoFetchChange

\* A finger moves: the second finger of two along the line through both, a single
\* finger to a displacement from the place it went down at.
TouchMove ==
    /\ pointer.touches # << >> /\ ~pointer.timer
    /\ pointer.gestures < MaxTouchGestures
    /\ \E client \in
           IF Len(pointer.touches) = 1
           THEN IF StationMap.drag = NullRecord THEN {}
                ELSE { Shifted([clientX |-> StationMap.drag.startX,
                                clientY |-> StationMap.drag.startY], offset) :
                         offset \in TouchOffsets }
           ELSE { Shifted(pointer.touches[1], << span, 0 >>) : span \in PinchSpans } :
         LET touches == [pointer.touches EXCEPT ![Len(pointer.touches)] = client]
         IN  /\ Inside(client)
             /\ client # pointer.touches[Len(pointer.touches)]
             /\ LET moved == touchMoveListener(Gesture([Cur EXCEPT !.pointer.touches = touches]),
                                                 touches)
                IN  Commit([moved EXCEPT !.pointer.sequence =
                                             IF isDragging(moved) THEN "gesture" ELSE @],
                           "touchMove", "")
    /\ NoFetchChange

\* A finger is lifted.  A lift that is a tap is on a place of GeoTargets.
TouchEnd ==
    /\ pointer.touches # << >> /\ ~pointer.timer
    /\ \E i \in 1..Len(pointer.touches) :
         LET touches == Without(pointer.touches, i)
             changed == pointer.touches[i]
             lifted == [Cur EXCEPT !.pointer.touches = touches,
                                   !.pointer.sequence = IF touches = << >> THEN "none" ELSE @]
             tap == /\ touches = << >>
                    /\ ~(StationMap.gestureOccurred \/ isPinching(Cur) \/ isDragging(Cur))
         IN  /\ tap => OnTarget(Cur, changed)
             /\ Commit(touchOnEnd(lifted, touches, changed),
                       IF tap THEN "tap" ELSE "touchEnd",
                       IF touches = << >> THEN pointer.sequence ELSE "")
    /\ NoFetchChange

\* The close button, Escape, or a click on the backdrop of the modal.
MapClose ==
    /\ MapInput
    /\ \E via \in { "map-close", "Escape", "map-modal" } :
         Commit(IF via = "map-modal" /\ isDragging(Cur) THEN Cur ELSE closeModal(Cur, TRUE),
                "mapClose", "")
    /\ NoFetchChange

\* ------------------------------------------------------------------ specification

StoredLocations == { NULL, NEAREST_LOCATION, "A", "B" }

\* StationMap as the script creates it.
InitialStationMap ==
    [ zoom |-> [scale |-> Num(1), x |-> Num(0), y |-> Num(0)],
      highlight |-> NULL, tapped |-> NULL, drag |-> NullRecord, pinch |-> NullRecord,
      gestureOccurred |-> FALSE, dots |-> {} ]

\* The pointers over the map: device is what the user points with, a mouse or a
\* touch screen, mouse is the client position of the mouse while it
\* is over the map, mouseDown whether its button went down there, upListener
\* whether onDocumentUp is registered on the document, timer whether the timeout
\* of onDocumentUp is pending, touches the client positions of the fingers on the
\* map; gestures counts the events that may move the viewport; sequence is a
\* history of the touch sequence under way: "none" with no finger down, "plain"
\* from the first finger on, "gesture" once two fingers have been down together
\* or a drag of one finger has been marked moved.
InitialPointer ==
    [ device |-> "mouse", mouse |-> NullRecord, mouseDown |-> FALSE, upListener |-> FALSE,
      timer |-> FALSE, touches |-> << >>, gestures |-> 0, sequence |-> "none" ]

InitialFetchLog == [ at |-> 0, started |-> 1, snapshotOf |-> 0 ]

\* The state once the script has run: fetchWeatherData() has been called and is
\* suspended in its first await; the item in localStorage is whatever an earlier
\* visit left.
Init ==
    /\ cachedStations = NullRecord
    /\ fetchInProgress = TRUE
    /\ lastRefresh = 0
    /\ now = 0
    /\ fetches = << "fetch" >>
    /\ Geolocation = [status |-> "unknown", coords |-> NullRecord, cancelledByUser |-> FALSE]
    /\ geoRequests = 0
    /\ hasGeolocation \in BOOLEAN
    /\ localStorage \in StoredLocations
    /\ hidden = [id \in ElementIds |-> TRUE]
    /\ errorMessage = ""
    /\ options = {}
    /\ rendered = NullRecord
    /\ history = [depth |-> 0, pending |-> 0]
    /\ StationMap = InitialStationMap
    /\ pointer = InitialPointer
    /\ fetchLog = InitialFetchLog
    /\ lastEvent = [op |-> "load", arg |-> "", sel |-> "-", out |-> "none"]

Next ==
    \/ Timer
    \/ TapCondition
    \/ refreshIfStale
    \/ FetchSettles
    \/ TextSettles
    \/ GeoSuccess
    \/ GeoError
    \/ Select
    \/ ToggleDropdown
    \/ CloseDropdown
    \/ Cancel
    \/ ToastDismiss
    \/ ToastTimeout
    \/ Popstate
    \/ BackButton

\* The widget with the clock standing at the load instant: refreshIfStale is then
\* throttled every time, and each fetch it could start at a later instant is
\* started by Timer, which differs from it in the throttle alone.
Spec == Init /\ [][Next]_vars

\* The widget with the clock running, on a platform without geolocation: when a
\* fetch starts depends on fetchInProgress, lastRefresh and the clock alone.
\* No position request is made there, so neither callback runs, and the pending
\* status with its cancel button is never shown.
InitClock == Init /\ ~hasGeolocation

NextClock ==
    \/ Timer
    \/ TapCondition
    \/ refreshIfStale
    \/ FetchSettles
    \/ TextSettles
    \/ Select
    \/ ToggleDropdown
    \/ CloseDropdown
    \/ ToastDismiss
    \/ ToastTimeout
    \/ Popstate
    \/ BackButton
    \/ Tick

SpecClock == InitClock /\ [][NextClock]_vars

\* ------------------------------------------------------------------ the map

\* The stations of the snapshot the map is opened over.
MapFeed ==
    extractAllStations(<< Row("A", "45.8", "15.9", "5.2"), Row("B", "45.8", "16.3", "5.2") >>)

\* The record of the state Init describes, with stored in localStorage.
InitialCur(stored) ==
    [ cachedStations |-> NullRecord,
      Geolocation |-> [status |-> "unknown", coords |-> NullRecord, cancelledByUser |-> FALSE],
      geoRequests |-> 0, localStorage |-> stored,
      hidden |-> [id \in ElementIds |-> TRUE], errorMessage |-> "", options |-> {},
      rendered |-> NullRecord, history |-> [depth |-> 0, pending |-> 0],
      map |-> InitialStationMap, pointer |-> InitialPointer,
      sel |-> "-", out |-> "none" ]

\* The widget on a platform without geolocation once its first fetch has
\* delivered MapFeed, with no selection stored or with station B selected; the
\* user points with a mouse or with a touch screen.
InitMap ==
    /\ hasGeolocation = FALSE
    /\ fetchInProgress = FALSE
    /\ lastRefresh = 0
    /\ now = 0
    /\ fetches = << >>
    /\ fetchLog = InitialFetchLog
    /\ \E stored \in { NULL, "B" }, device \in { "mouse", "touch" } :
         LET s == fetchSucceeded([InitialCur(stored) EXCEPT !.pointer.device = device],
                                 MapFeed)
         IN  /\ cachedStations = s.cachedStations
             /\ Geolocation = s.Geolocation
             /\ geoRequests = s.geoRequests
             /\ localStorage = s.localStorage
             /\ hidden = s.hidden
             /\ errorMessage = s.errorMessage
             /\ options = s.options
             /\ rendered = s.rendered
             /\ history = s.history
             /\ StationMap = s.map
             /\ pointer = s.pointer
             /\ lastEvent = [op |-> "fetchSucceeded", arg |-> "stations",
                             sel |-> s.sel, out |-> s.out]

\* The modal covers the trigger of the dropdown while it is open.
OpenDropdown == ~StationMapIsOpen(Cur) /\ ToggleDropdown

NextMap ==
    \/ OpenDropdown
    \/ ShowMap
    \/ MouseMove
    \/ MouseDrag
    \/ MouseDown
    \/ MouseUp
    \/ DragTimeout
    \/ MouseLeave
    \/ Wheel
    \/ TouchStart
    \/ TouchMove
    \/ TouchEnd
    \/ MapClose
    \/ Popstate
    \/ BackButton

\* The map and what opens and closes it, with no fetch in flight.
SpecMap == InitMap /\ [][NextMap]_vars

\* ------------------------------------------------------------------ the map and the feed

\* One finger at a time goes down on the map.
OneFingerDown == pointer.touches = << >> /\ TouchStart

\* The unzoomed map with the feed refreshing under it: the timer starts fetches,
\* and their results replace the snapshot while the map is closed or open; the
\* user moves the mouse and clicks, or taps with one finger.
NextMapFeed ==
    \/ Timer
    \/ FetchSettles
    \/ TextSettles
    \/ OpenDropdown
    \/ ShowMap
    \/ MouseMove
    \/ MouseDown
    \/ MouseUp
    \/ OneFingerDown
    \/ TouchEnd
    \/ Popstate

SpecMapFeed == InitMap /\ [][NextMapFeed]_vars

\* ------------------------------------------------------------------ history

\* A click on #location-trigger that opens the dropdown while the popstate of an
\* earlier history.back() is still to be delivered.
ReopenDropdown ==
    /\ ~isOpen(Cur) /\ ~StationMapIsOpen(Cur)
    /\ history.pending > 0
    /\ history.depth <= MaxHistory
    /\ Commit(LocationPickerToggle(Cur), "other", "")
    /\ NoFetchChange

\* The overlays and what opens and closes them, after the first fetch.
NextHistory ==
    \/ FetchSettles
    \/ TextSettles
    \/ OpenDropdown
    \/ ReopenDropdown
    \/ Cancel
    \/ Select
    \/ ShowMap
    \/ MapClose
    \/ Popstate
    \/ BackButton

SpecHistory == Init /\ [][NextHistory]_vars

\* ------------------------------------------------------------------ zoomTo

\* Scales zoomTo is called with, and centres in the view box and on its border.
ZoomScales == { Frac(1, 2), Num(2), Num(4), Num(8) }
ZoomCentres ==
    { [x |-> x, y |-> y] : x \in { Num(0), Num(100), Num(305), viewBox.width },
                           y \in { Num(0), Num(238), Num(400), viewBox.height } }

\* A call of zoomTo.
ZoomToCall ==
    /\ pointer.gestures < MaxZoomCalls
    /\ \E newScale \in ZoomScales, P \in ZoomCentres :
         Commit(zoomTo(Gesture(Cur), newScale, P.x, P.y), "zoomTo", << newScale, P >>)
    /\ NoFetchChange

\* zoomTo called with any of ZoomScales at any of ZoomCentres, from the identity
\* viewport and from the viewports such calls leave.
SpecZoom == InitMap /\ [][ZoomToCall]_vars

\* ------------------------------------------------------------------ findNearestWithinSnap

\* Scales of the viewport: the identity, the scale at which the snap radius is the
\* distance of a tenth of a degree of latitude, and two steps beyond it.
SnapScales == { Num(1), Frac(snapDistance * 1000, haversineDistance(458, 159, 459, 159)),
                Num(2), Num(maxZoom) }

\* Places findNearestWithinSnap is asked about.
SnapQueries ==
    { [lat |-> Num(458), lon |-> Num(159)], [lat |-> Num(459), lon |-> Num(159)],
      [lat |-> Num(458), lon |-> Num(163)], [lat |-> Num(459), lon |-> Num(163)],
      [lat |-> Num(448), lon |-> Num(159)] }

\* The widget once a fetch has delivered any of ParsedFeeds, the viewport at any of
\* SnapScales.
InitSnap ==
    /\ hasGeolocation = FALSE
    /\ fetchInProgress = FALSE
    /\ lastRefresh = 0
    /\ now = 0
    /\ fetches = << >>
    /\ fetchLog = InitialFetchLog
    /\ \E stations \in ParsedFeeds, scale \in SnapScales :
         LET s == fetchSucceeded(InitialCur(NULL), stations)
         IN  /\ cachedStations = s.cachedStations
             /\ Geolocation = s.Geolocation
             /\ geoRequests = s.geoRequests
             /\ localStorage = s.localStorage
             /\ hidden = s.hidden
             /\ errorMessage = s.errorMessage
             /\ options = s.options
             /\ rendered = s.rendered
             /\ history = s.history
             /\ StationMap = [s.map EXCEPT !.zoom.scale = scale]
             /\ pointer = s.pointer
             /\ lastEvent = [op |-> "fetchSucceeded", arg |-> "stations",
                             sel |-> s.sel, out |-> s.out]

\* A call of findNearestWithinSnap; lastEvent.out is what it returns.
SnapCall ==
    /\ \E g \in SnapQueries :
         lastEvent' = [op |-> "findNearestWithinSnap", arg |-> g, sel |-> "-",
                       out |-> findNearestWithinSnap(Cur, g.lat, g.lon)]
    /\ UNCHANGED << cachedStations, fetchInProgress, lastRefresh, now, fetches, Geolocation,
                    geoRequests, hasGeolocation, localStorage, hidden, errorMessage,
                    options, rendered, history, StationMap, pointer, fetchLog >>

SpecSnap == InitSnap /\ [][SnapCall]_vars

\* ------------------------------------------------------------------ render

\* Distances render is called with, in metres: none, and distances about the
\* threshold of the warning.
RenderDistances == { NullDistance, 0, 19999, 20000, 20001, 31008 }

\* A call of render with a station of the snapshot.
RenderCall ==
    /\ \E i \in 1..Len(cachedStations.entries), distance \in RenderDistances :
         Commit(render(Cur, cachedStations.entries[i], distance), "render", distance)
    /\ NoFetchChange

SpecRender == InitSnap /\ [][RenderCall]_vars

\* ------------------------------------------------------------------ DHMZ variant

\* The DHMZ variant (src/app.js) keeps its state in variables of the same names;
\* it has no fetchInProgress, no toast and no history handling.  A suspended
\* fetchWeatherData invocation is [id, stage], id counting the invocations in the
\* order they started.  renderSelectedStation, getStationForLocation,
\* findNearestStation, Geolocation.request and the success callback read the same
\* in both variants and share their definitions.

\* Most fetchWeatherData invocations of one run of the DHMZ variant.
MaxStarts == 3
\* Date.now() at the load of the page, in milliseconds.
LoadInstant == 1000000

\* One <Grad> element, reduced to what extractAllStations reads: name is NULL
\* without a <GradIme>, data tells whether <Podatci> is there, temp is the text of
\* <Temp> ("" when missing).
Grad(name, lat, lon, data, temp) ==
    [name |-> name, lat |-> lat, lon |-> lon, data |-> data, temp |-> temp]

Grads ==
    { Grad("A", "45.8", "15.9", TRUE, "5.2"),
      Grad("B", "45.8", "16.3", TRUE, "5.2"),
      Grad("B", "", "16.3", TRUE, "5.2"),
      Grad("A", "45.8", "15.9", TRUE, "-") }

XmlDocs == SeqsUpTo(Grads, MaxEntries)

RECURSIVE dhmzExtractEntries(_, _)
dhmzExtractEntries(grads, result) ==
    IF grads = <<>> THEN result
    ELSE LET station == Head(grads)
             tempValue == station.temp
             skip == \/ station.name = NULL
                     \/ ~station.data
                     \/ tempValue = "" \/ tempValue = "-"
         IN  dhmzExtractEntries(Tail(grads),
                 IF skip THEN result
                 ELSE PutStation(result, [name |-> station.name,
                                          lat |-> parseFloat(station.lat),
                                          lon |-> parseFloat(station.lon),
                                          temperature |-> parseFloat(tempValue)]))

dhmzExtractAllStations(xmlDoc) == [entries |-> dhmzExtractEntries(xmlDoc, <<>>)]

DhmzFeeds == { dhmzExtractAllStations(xmlDoc) : xmlDoc \in XmlDocs }

DhmzFailureAtFetch == {"Failed to fetch", "HTTP error"}
DhmzFailureAtText == {"Failed to fetch", "Invalid response from proxy", "XML parse error"}

\* fetchWeatherData() up to its first await: nothing keeps a second invocation
\* from starting while an earlier one is suspended.
dhmzFetchWeatherData ==
    /\ fetchLog.started < MaxStarts
    /\ fetches' = Append(fetches, [id |-> fetchLog.started + 1, stage |-> "fetch"])
    /\ fetchLog' = [fetchLog EXCEPT !.started = @ + 1, !.at = now]

\* The try block after both awaits.
dhmzFetchSucceeded(s, stations) ==
    LET a == [s EXCEPT !.cachedStations = stations]
        b == LocationPickerPopulate(a, ObjectKeys(a.cachedStations))
    IN  renderSelectedStation(GeolocationRequest(b))

\* The catch block.
dhmzFetchFailed(s, message) ==
    IF s.cachedStations # NullRecord THEN s
    ELSE renderError(s, MsgFetch(message))

\* The error callback of getCurrentPosition.
dhmzGeolocationOnError(s, code) ==
    LET g == [s EXCEPT !.Geolocation.status =
                  IF code = PERMISSION_DENIED THEN "denied" ELSE "unavailable"]
    IN  IF getSelectedLocation(g) = NEAREST_LOCATION THEN renderSelectedStation(g) ELSE g

DhmzStatic == UNCHANGED << fetchInProgress, now, hasGeolocation >>

\* setInterval(fetchWeatherData, REFRESH_INTERVAL)
DhmzTimer ==
    /\ dhmzFetchWeatherData
    /\ Commit(Cur, "timer", "started")
    /\ UNCHANGED lastRefresh
    /\ DhmzStatic

\* A click on #condition-container.
DhmzTapCondition ==
    /\ dhmzFetchWeatherData
    /\ Commit(Cur, "tap", "started")
    /\ UNCHANGED lastRefresh
    /\ DhmzStatic

\* visibilitychange (visible), pageshow, focus
DhmzRefreshIfStale ==
    /\ IF now - lastRefresh > THROTTLE_MS
       THEN /\ lastRefresh' = now
            /\ dhmzFetchWeatherData
            /\ Commit(Cur, "refreshIfStale", "started")
       ELSE /\ UNCHANGED << lastRefresh, fetches, fetchLog >>
            /\ Commit(Cur, "refreshIfStale", "throttled")
    /\ DhmzStatic

\* await fetch(fetchUrl) settles.
DhmzFetchSettles ==
    \E i \in 1..Len(fetches) :
        /\ fetches[i].stage = "fetch"
        /\ \/ \E message \in DhmzFailureAtFetch :
                /\ Commit(dhmzFetchFailed(Cur, message), "fetchFailed", message)
                /\ fetches' = Without(fetches, i)
           \/ /\ fetches' = [fetches EXCEPT ![i].stage = "text"]
              /\ Commit(Cur, "other", "")
        /\ UNCHANGED << lastRefresh, fetchLog >>
        /\ DhmzStatic

\* await response.text() settles.
DhmzTextSettles ==
    \E i \in 1..Len(fetches) :
        /\ fetches[i].stage = "text"
        /\ \/ \E message \in DhmzFailureAtText :
                /\ Commit(dhmzFetchFailed(Cur, message), "fetchFailed", message)
                /\ UNCHANGED fetchLog
           \/ \E stations \in DhmzFeeds :
                /\ CanRequest
                /\ Commit(dhmzFetchSucceeded(Cur, stations), "fetchSucceeded",
                          IF Len(stations.entries) = 0 THEN "empty" ELSE "stations")
                /\ fetchLog' = [fetchLog EXCEPT !.snapshotOf = fetches[i].id]
        /\ fetches' = Without(fetches, i)
        /\ UNCHANGED lastRefresh
        /\ DhmzStatic

DhmzGeoSuccess ==
    /\ geoRequests > 0
    /\ \E position \in UserPositions :
         Commit(GeolocationOnSuccess([Cur EXCEPT !.geoRequests = @ - 1], position),
                "geoSuccess", "")
    /\ UNCHANGED << lastRefresh, fetches, fetchLog >>
    /\ DhmzStatic

DhmzGeoError ==
    /\ geoRequests > 0
    /\ \E code \in DOMAIN PositionErrors :
         Commit(dhmzGeolocationOnError([Cur EXCEPT !.geoRequests = @ - 1], code),
                "geoError", PositionErrors[code])
    /\ UNCHANGED << lastRefresh, fetches, fetchLog >>
    /\ DhmzStatic

\* The DHMZ script has run: fetchWeatherData() is suspended in its first await and
\* lastRefresh is still the 0 of its declaration, LoadInstant before the load.
InitDhmz ==
    /\ cachedStations = NullRecord
    /\ fetchInProgress = FALSE
    /\ lastRefresh = 0 - LoadInstant
    /\ now = 0
    /\ fetches = << [id |-> 1, stage |-> "fetch"] >>
    /\ Geolocation = [status |-> "unknown", coords |-> NullRecord, cancelledByUser |-> FALSE]
    /\ geoRequests = 0
    /\ hasGeolocation \in BOOLEAN
    /\ localStorage \in StoredLocations
    /\ hidden = [id \in ElementIds |-> TRUE]
    /\ errorMessage = ""
    /\ options = {}
    /\ rendered = NullRecord
    /\ history = [depth |-> 0, pending |-> 0]
    /\ StationMap = InitialStationMap
    /\ pointer = InitialPointer
    /\ fetchLog = InitialFetchLog
    /\ lastEvent = [op |-> "load", arg |-> "", sel |-> "-", out |-> "none"]

NextDhmz ==
    \/ DhmzTimer
    \/ DhmzTapCondition
    \/ DhmzRefreshIfStale
    \/ DhmzFetchSettles
    \/ DhmzTextSettles
    \/ DhmzGeoSuccess
    \/ DhmzGeoError

SpecDhmz == InitDhmz /\ [][NextDhmz]_vars

\* ------------------------------------------------------------------ DHMZ stations

\* <Grad> elements of every kind extractAllStations tells apart: stations A and B,
\* C at the place of A, B without a latitude, a station with an empty <GradIme>,
\* with and without a latitude,
\* and elements without <GradIme>, without <Podatci>, and with a <Temp> that is
\* missing or empty, "-", or not a number.
StationGrads ==
    { Grad("A", "45.8", "15.9", TRUE, "5.2"),
      Grad("B", "45.8", "16.3", TRUE, "5.2"),
      Grad("C", "45.8", "15.9", TRUE, "5.2"),
      Grad("B", "", "16.3", TRUE, "5.2"),
      Grad("", "45.8", "15.9", TRUE, "5.2"),
      Grad("", "", "15.9", TRUE, "5.2"),
      Grad(NULL, "45.8", "15.9", TRUE, "5.2"),
      Grad("A", "45.8", "15.9", FALSE, ""),
      Grad("A", "45.8", "15.9", TRUE, ""),
      Grad("A", "45.8", "15.9", TRUE, "-"),
      Grad("A", "45.8", "15.9", TRUE, "n/a") }

StationDocs == SeqsUpTo(StationGrads, MaxEntries)

\* The DHMZ widget once a fetch has delivered a document of StationDocs: any item
\* in localStorage, the position of the user cached or not.  lastEvent.arg is the
\* document.
InitStations ==
    /\ hasGeolocation = TRUE
    /\ fetchInProgress = FALSE
    /\ lastRefresh = 0
    /\ now = 0
    /\ fetches = << >>
    /\ fetchLog = InitialFetchLog
    /\ \E xmlDoc \in StationDocs, stored \in { NEAREST_LOCATION, "A", "B" },
          coords \in UserPositions \cup { NullRecord } :
         LET g == IF coords = NullRecord THEN InitialCur(stored)
                  ELSE GeolocationOnSuccessSilent(InitialCur(stored), coords)
             s == dhmzFetchSucceeded(g, dhmzExtractAllStations(xmlDoc))
         IN  /\ cachedStations = s.cachedStations
             /\ Geolocation = s.Geolocation
             /\ geoRequests = s.geoRequests
             /\ localStorage = s.localStorage
             /\ hidden = s.hidden
             /\ errorMessage = s.errorMessage
             /\ options = s.options
             /\ rendered = s.rendered
             /\ history = s.history
             /\ StationMap = s.map
             /\ pointer = s.pointer
             /\ lastEvent = [op |-> "fetchSucceeded", arg |-> xmlDoc,
                             sel |-> s.sel, out |-> s.out]

StationsUnchanged ==
    UNCHANGED << cachedStations, fetchInProgress, lastRefresh, now, fetches, Geolocation,
                 geoRequests, hasGeolocation, localStorage, hidden, errorMessage,
                 options, rendered, history, StationMap, pointer, fetchLog >>

\* A call of findNearestStation on the snapshot; lastEvent.out is what it returns.
NearestCall ==
    /\ \E position \in UserPositions :
         lastEvent' = [op |-> "findNearestStation", arg |-> position, sel |-> "-",
                       out |-> findNearestStation(cachedStations, position.lat,
                                                  position.lon)]
    /\ StationsUnchanged

\* The calls, and the dropdown and the map of the page.
NextStations ==
    \/ NearestCall
    \/ SnapCall
    \/ OpenDropdown
    \/ Select
    \/ ShowMap
    \/ Popstate

SpecStations == InitStations /\ [][NextStations]_vars

\* ------------------------------------------------------------------ extractAllStations with the clock

\* One row of podaci with the columns TIME, HUMIDITY and WIND_SPEED as well.
TimedRow(name, lat, lon, temp, time, humidity, windSpeed) ==
    [name |-> name, lat |-> lat, lon |-> lon, temperature |-> temp, time |-> time,
     humidity |-> humidity, windSpeed |-> windSpeed]

TimedRows ==
    { TimedRow("A", "45.8", "15.9", "5.2", "18:10:00", "", ""),
      TimedRow("A", "45.8", "15.9", "5.2", "06:00", "-", "1"),
      TimedRow("B", "45.8", "16.3", "38", "19:59", "80", "1"),
      TimedRow("B", "45.8", "16.3", "38", "20:01", "80", "1"),
      TimedRow("B", "45.8", "16.3", "-", "06:00", "80", "1"),
      TimedRow("B", "45.8", "16.3", "5.2", "", "", ""),
      TimedRow("B", "45.8", "16.3", "5.2", "30:00", "", ""),
      TimedRow("A", "45.8", "15.9", "5.2", "6 h", "80", "") }

TimedPayloads == SeqsUpTo(TimedRows, MaxEntries)

\* The local time of day at which the feed is parsed, in minutes since midnight:
\* 20:00 and 05:00.
ParseClocks == { 1200, 300 }

MinutesPerDay == 24 * 60

\* The hour and minute the pattern of parseMeasurementTime reads from timeStr, in
\* minutes since midnight; NaN where the pattern does not match.  The pattern
\* takes any two digits for the hour, and new Date(y, m, d, hour, minute) carries
\* an hour beyond 23 into the days that follow.
TimeOfDay(timeStr) ==
    CASE timeStr = "18:10:00" -> 1090
      [] timeStr = "06:00" -> 360
      [] timeStr = "19:59" -> 1199
      [] timeStr = "20:01" -> 1201
      [] timeStr = "30:00" -> 1800
      [] OTHER -> NaN

\* The Date parseMeasurementTime returns when new Date() is clock, as minutes
\* since the midnight before clock; NullRecord for null.
parseMeasurementTime(timeStr, clock) ==
    IF timeStr = "" \/ TimeOfDay(timeStr) = NaN THEN NullRecord
    ELSE IF TimeOfDay(timeStr) > clock
    THEN [minutes |-> TimeOfDay(timeStr) - MinutesPerDay]
    ELSE [minutes |-> TimeOfDay(timeStr)]

parseNumberOrNull(value) ==
    IF value = "-" \/ value = "" THEN NULL
    ELSE IF isNaN(parseFloat(value)) THEN NULL ELSE parseFloat(value)

\* extractAllStations with the columns of TimedRow, run when new Date() is clock.
RECURSIVE extractTimedEntries(_, _, _)
extractTimedEntries(podaci, clock, result) ==
    IF podaci = <<>> THEN result
    ELSE LET entry == Head(podaci)
             tempStr == entry.temperature
             temperature == parseFloat(tempStr)
             lat == parseFloat(entry.lat)
             lon == parseFloat(entry.lon)
             skip == \/ entry.name = ""
                     \/ tempStr = "-" \/ tempStr = ""
                     \/ isNaN(temperature)
                     \/ ~isFinite(lat) \/ ~isFinite(lon)
         IN  extractTimedEntries(Tail(podaci), clock,
                 IF skip THEN result
                 ELSE PutStation(result,
                          [name |-> entry.name, lat |-> lat, lon |-> lon,
                           temperature |-> temperature,
                           humidity |-> parseNumberOrNull(entry.humidity),
                           windSpeed |-> parseNumberOrNull(entry.windSpeed),
                           condition |-> NULL,
                           measurementTime |-> parseMeasurementTime(entry.time, clock)]))

extractAllStationsAt(podaci, clock) == [entries |-> extractTimedEntries(podaci, clock, <<>>)]

\* The script has run and its first fetch is suspended.
InitParse ==
    /\ Init
    /\ hasGeolocation = FALSE
    /\ localStorage = NULL

\* A call of extractAllStations; lastEvent.out is what it returns.
ParseCall ==
    /\ \E podaci \in TimedPayloads, clock \in ParseClocks :
         lastEvent' = [op |-> "extractAllStations", arg |-> [podaci |-> podaci, clock |-> clock],
                       sel |-> "-", out |-> extractAllStationsAt(podaci, clock)]
    /\ StationsUnchanged

SpecParse == InitParse /\ [][ParseCall]_vars

\* ------------------------------------------------------------------ claims

Snapshot == cachedStations # NullRecord
NonEmptySnapshot == Snapshot /\ Len(cachedStations.entries) > 0
FetchMessages == { MsgFetch(m) : m \in FailureAtFetch \cup FailureAtText }
FetchErrorShown == ~hidden["error"] /\ errorMessage \in FetchMessages
Terminal == { "granted", "denied", "unavailable" }
Triggers == { "timer", "tap", "refreshIfStale" }

\* C1: a failed fetch (rejected fetch, response not ok, no podaci array, invalid
\* JSON) leaves cachedStations as it was; with a snapshot stored the view is left
\* as it was but for the toast, which is shown; without one, and only then, the
\* fetch error is rendered.
C1_FailedFetchKeepsSnapshot ==
    [][ lastEvent'.op = "fetchFailed" =>
          /\ cachedStations' = cachedStations
          /\ Snapshot =>
                /\ ~hidden'["toast"]
                /\ hidden' = [hidden EXCEPT !["toast"] = FALSE]
                /\ rendered' = rendered
                /\ errorMessage' = errorMessage
                /\ lastEvent'.out = "none"
          /\ ~Snapshot =>
                /\ ~hidden'["error"] /\ hidden'["weather"] /\ hidden'["status"]
                /\ errorMessage' = MsgFetch(lastEvent'.arg)
                /\ hidden'["toast"] = hidden["toast"] ]_vars

\* C1 witness: a fetch has just failed while a station of the stored snapshot is
\* on screen, and the toast is up.
C1_Witness ==
    /\ lastEvent.op = "fetchFailed"
    /\ Snapshot
    /\ ~hidden["weather"] /\ rendered # NullRecord
    /\ ~hidden["toast"]

C3_OneRequestOutstanding == geoRequests <= 1

\* C4 (as claimed): Geolocation.status changes only from unknown to granted,
\* denied or unavailable, and from denied or unavailable to unknown.
C4_StatusTransitions ==
    [][ Geolocation'.status # Geolocation.status =>
          \/ Geolocation.status = "unknown" /\ Geolocation'.status \in Terminal
          \/ Geolocation.status \in { "denied", "unavailable" }
               /\ Geolocation'.status = "unknown" ]_vars

\* C5: the error callback sets status to denied for PERMISSION_DENIED and to
\* unavailable for every other code and leaves coords alone; coords, once
\* non-null, is never null again.
C5_FailureKeepsCoords ==
    [][ /\ lastEvent'.op = "geoError" =>
              /\ Geolocation'.status =
                     IF lastEvent'.arg = "PERMISSION_DENIED" THEN "denied" ELSE "unavailable"
              /\ Geolocation'.coords = Geolocation.coords
        /\ Geolocation.coords # NullRecord => Geolocation'.coords # NullRecord ]_vars

\* C5 witness: a position request has failed after an earlier one had cached
\* coordinates.
C5_Witness ==
    /\ lastEvent.op = "geoError"
    /\ Geolocation.coords # NullRecord
    /\ Geolocation.status \in { "denied", "unavailable" }

\* The station of the snapshot at the least distance from coords, with that
\* distance: what a resolution through 'Najbliza' is to render.
IsNearest(r, stations, coords) ==
    /\ r # NullRecord
    /\ \E i \in 1..Len(stations.entries) : stations.entries[i] = r.station
    /\ r.distance = haversineDistance(coords.lat, coords.lon, r.station.lat, r.station.lon)
    /\ \A i \in 1..Len(stations.entries) :
          r.distance <= haversineDistance(coords.lat, coords.lon,
                                          stations.entries[i].lat, stations.entries[i].lon)

\* What renderSelectedStation is to show for 'Najbliza' without coordinates.
ShowsGeolocationState ==
    /\ Geolocation'.status = "unknown" =>
          lastEvent'.out = "renderStatus" /\ ~hidden'["status"] /\ hidden'["error"]
    /\ Geolocation'.status = "denied" =>
          /\ lastEvent'.out = "renderError" /\ errorMessage' = MsgDenied
          /\ ~hidden'["error"] /\ hidden'["weather"] /\ hidden'["status"]
    /\ Geolocation'.status = "unavailable" =>
          /\ lastEvent'.out = "renderError" /\ errorMessage' = MsgUnavailable
          /\ ~hidden'["error"] /\ hidden'["weather"] /\ hidden'["status"]
    /\ Geolocation'.status # "granted"

\* What renderSelectedStation is to show for 'Najbliza' with coordinates.
ShowsNearest ==
    /\ lastEvent'.out = "render"
    /\ IsNearest(rendered', cachedStations', Geolocation'.coords)
    /\ ~hidden'["weather"] /\ hidden'["error"] /\ hidden'["status"]

\* C6: with 'Najbliza' selected, a non-empty snapshot and no coordinates,
\* renderSelectedStation shows the pending status for unknown, the
\* location-disabled error for denied and the location-not-available error for
\* unavailable, and renders no station; a position request that succeeds while
\* 'Najbliza' is selected renders the nearest station with its distance.
C6_NearestFollowsGeolocation ==
    [][ /\ (lastEvent'.sel = NEAREST_LOCATION /\ Geolocation'.coords = NullRecord) =>
              ShowsGeolocationState
        /\ ( /\ lastEvent'.op = "geoSuccess"
             /\ localStorage \in { NULL, NEAREST_LOCATION }
             /\ NonEmptySnapshot ) => ShowsNearest ]_vars

\* C6 witness: a position request has succeeded while 'Najbliza' was selected and
\* the nearest station is on screen with its distance.
C6_Witness ==
    /\ lastEvent.op = "geoSuccess" /\ lastEvent.sel = NEAREST_LOCATION
    /\ lastEvent.out = "render"
    /\ rendered # NullRecord /\ rendered.distance # NullDistance

\* C7 (as claimed): when the selection read by renderSelectedStation names a
\* station absent from the non-empty snapshot, 'Najbliza' is persisted and the
\* view is what a 'Najbliza' resolution shows for the geolocation state.
C7_FallbackResolvesAsNearest ==
    [][ ( /\ lastEvent'.sel \notin { "-", NEAREST_LOCATION }
          /\ lastEvent'.sel \notin ObjectKeys(cachedStations') ) =>
            /\ localStorage' = NEAREST_LOCATION
            /\ IF Geolocation'.coords = NullRecord THEN ShowsGeolocationState
               ELSE ShowsNearest ]_vars

\* C8: when the selection read by renderSelectedStation names a station of the
\* snapshot, that station is rendered with distance null, whatever the
\* geolocation status; render gets a distance only while 'Najbliza' is selected.
C8_NamedStationHasNoDistance ==
    [][ /\ ( /\ lastEvent'.sel \notin { "-", NEAREST_LOCATION }
             /\ lastEvent'.sel \in ObjectKeys(cachedStations') ) =>
              /\ lastEvent'.out = "render"
              /\ rendered'.station = Lookup(cachedStations', lastEvent'.sel)
              /\ rendered'.distance = NullDistance
              /\ ~hidden'["weather"] /\ hidden'["error"] /\ hidden'["status"]
        /\ ( /\ lastEvent'.out = "render"
             /\ rendered'.distance # NullDistance ) =>
              localStorage' = NEAREST_LOCATION \/ localStorage' = NULL ]_vars

\* C8 witness: a named station is on screen without a distance while the
\* location is denied.
C8_Witness ==
    /\ lastEvent.sel \in { "A", "B" } /\ lastEvent.out = "render"
    /\ Geolocation.status = "denied"
    /\ rendered # NullRecord /\ rendered.distance = NullDistance
    /\ rendered.station.name = lastEvent.sel

\* C9 (as claimed): a successful fetch with at least one station leaves no fetch
\* error on screen.
C9_SuccessClearsFetchError ==
    [][ (lastEvent'.op = "fetchSucceeded" /\ lastEvent'.arg = "stations") =>
          ~FetchErrorShown' ]_vars

\* C10: a successful fetch with zero stations stores the empty snapshot, shows
\* the no-data message and leaves the persisted selection alone.
C10_EmptyFeedShowsNoData ==
    [][ (lastEvent'.op = "fetchSucceeded" /\ lastEvent'.arg = "empty") =>
          /\ cachedStations' = [entries |-> << >>]
          /\ ~hidden'["error"] /\ errorMessage' = MsgNoData
          /\ hidden'["weather"] /\ hidden'["status"]
          /\ localStorage' = localStorage ]_vars

\* C10 witness: the feed has just come back empty while a station that is no
\* longer in the snapshot is the persisted selection.
C10_Witness ==
    /\ lastEvent.op = "fetchSucceeded" /\ lastEvent.arg = "empty"
    /\ cachedStations = [entries |-> << >>]
    /\ localStorage \in { "A", "B" }
    /\ errorMessage = MsgNoData

\* C11 (as claimed): in the DHMZ variant the snapshot is never replaced by the
\* result of a fetch that started before the fetch whose result it holds.
C11_SnapshotNeverOlder ==
    [][ fetchLog'.snapshotOf >= fetchLog.snapshotOf ]_vars

\* C12: a fetch started by refreshIfStale (visibilitychange, pageshow, focus)
\* starts more than THROTTLE_MS after the start of the latest fetch before it,
\* whatever started that one; at a gap of THROTTLE_MS or less it starts none.
C12_EventFetchesAreThrottled ==
    [][ lastEvent'.op = "refreshIfStale" =>
          /\ lastEvent'.arg = "started" => now - fetchLog.at > THROTTLE_MS
          /\ now - fetchLog.at <= THROTTLE_MS =>
                fetches' = fetches /\ fetchLog' = fetchLog ]_vars

\* C12 witness: refreshIfStale has just started a fetch, later than THROTTLE_MS
\* after the load.
C12_Witness ==
    /\ lastEvent.op = "refreshIfStale" /\ lastEvent.arg = "started"
    /\ fetchLog.at = now /\ now > THROTTLE_MS
    /\ fetches = << "fetch" >>

\* The mouse is farther than threshold CSS pixels from the place of its press,
\* along one axis or the other.
MouseDisplacedBeyond(threshold) ==
    /\ StationMap.drag # NullRecord /\ pointer.mouse # NullRecord
    /\ \/ Less(Num(threshold), MathAbs(Minus(pointer.mouse.clientX, StationMap.drag.startX)))
       \/ Less(Num(threshold), MathAbs(Minus(pointer.mouse.clientY, StationMap.drag.startY)))

\* C13 (as claimed): the click that follows the release of a drag that moved beyond the
\* threshold selects no station and leaves the map open, the drag being still in
\* place when the click handlers run; the click after a press and release that
\* stayed within the threshold, or after no drag at all, selects the highlighted
\* station and closes the map.
C13_DragSuppressesClick ==
    [][ lastEvent'.op = "click" =>
          /\ isDragging(Cur) \/ MouseDisplacedBeyond(MOUSE_MOVE_THRESHOLD) =>
                /\ localStorage' = localStorage
                /\ rendered' = rendered
                /\ ~hidden'["map-modal"]
                /\ StationMap'.drag = StationMap.drag
          /\ ~isDragging(Cur) /\ StationMap.highlight # NULL =>
                /\ localStorage' = StationMap.highlight
                /\ hidden'["map-modal"] ]_vars

\* C13 (amended): the click that follows the release of a drag that moved beyond
\* the threshold selects no station and leaves the map open; the click after a
\* press and release that stayed within the threshold, or after no drag at all,
\* selects the station of the dot under the pointer when the pointer is on a dot,
\* and otherwise the highlighted station, and closes the map.
C13_DragSuppressesClickDotFirst ==
    [][ lastEvent'.op = "click" =>
          /\ isDragging(Cur) \/ MouseDisplacedBeyond(MOUSE_MOVE_THRESHOLD) =>
                /\ localStorage' = localStorage
                /\ rendered' = rendered
                /\ ~hidden'["map-modal"]
                /\ StationMap'.drag = StationMap.drag
          /\ ~isDragging(Cur) /\ dotUnder(Cur, pointer.mouse) # NULL =>
                /\ localStorage' = dotUnder(Cur, pointer.mouse)
                /\ hidden'["map-modal"]
          /\ ~isDragging(Cur) /\ dotUnder(Cur, pointer.mouse) = NULL
                /\ StationMap.highlight # NULL =>
                /\ localStorage' = StationMap.highlight
                /\ hidden'["map-modal"] ]_vars

\* C13 witness: a drag that moved has just been released over a highlighted
\* station; the map is still open, the station is not the selection, and the
\* timeout that clears the drag is pending.
C13_Witness ==
    /\ lastEvent.op = "click"
    /\ isDragging(Cur) /\ pointer.timer
    /\ StationMap.highlight # NULL /\ localStorage # StationMap.highlight
    /\ ~hidden["map-modal"]

\* The station a lift of the only finger on the map taps, NULL if none is within
\* the snap radius.
TappedNear ==
    LET at == eventToSvg(pointer.touches[1])
        geo == svgToLatLon(Cur, at.x, at.y)
    IN  findNearestWithinSnap(Cur, geo.lat, geo.lon)

\* C14: a tap on a station other than the tapped one makes it the tapped one and
\* selects nothing; a tap on the tapped station selects it and closes the map; a
\* tap with no station within the snap radius clears tapped and selects nothing.
C14_TwoPhaseTap ==
    [][ lastEvent'.op = "tap" =>
          /\ TappedNear = NULL =>
                /\ StationMap'.tapped = NULL
                /\ localStorage' = localStorage /\ hidden'["map-modal"] = hidden["map-modal"]
          /\ TappedNear # NULL /\ TappedNear # StationMap.tapped =>
                /\ StationMap'.tapped = TappedNear
                /\ localStorage' = localStorage /\ hidden'["map-modal"] = hidden["map-modal"]
          /\ TappedNear # NULL /\ TappedNear = StationMap.tapped =>
                /\ localStorage' = TappedNear
                /\ hidden'["map-modal"] ]_vars

\* C14 witness: the second tap on a station has just selected it and closed the
\* map.
C14_Witness ==
    /\ lastEvent.op = "tap" /\ lastEvent.sel # "-"
    /\ localStorage \in { "A", "B" }
    /\ hidden["map-modal"] /\ StationMap.tapped = NULL

\* The point of the unzoomed map that zoom draws at the point at of the view box.
BaseAt(zoom, at) ==
    [x |-> Plus(Over(at.x, zoom.scale), zoom.x),
     y |-> Plus(Over(at.y, zoom.scale), zoom.y)]

\* The point of the view box under the mouse.
CursorSvg == eventToSvg(pointer.mouse)

\* A wheel step that changes the scale.
WheelZooms ==
    lastEvent'.op = "wheel" /\ StationMap'.zoom.scale # StationMap.zoom.scale

PanKeeping(base, at) == Minus(base, Over(at, StationMap'.zoom.scale))
PanRange(extent) == Minus(extent, Over(extent, StationMap'.zoom.scale))

Zoomed(zoom) == [Cur EXCEPT !.map.zoom = zoom]

\* C16: zoomTo from the identity viewport to a larger scale centred at P draws at
\* P, after the call, the geographic point it drew there before: the clamp after
\* the zoom has not moved the pan.
C16_ZoomFromIdentityKeepsCentre ==
    [][ /\ lastEvent'.op = "zoomTo"
        /\ StationMap.zoom = [scale |-> Num(1), x |-> Num(0), y |-> Num(0)]
        /\ Less(Num(1), lastEvent'.arg[1])
        => LET P == lastEvent'.arg[2]
               geo == svgToLatLon(Cur, P.x, P.y)
           IN  /\ Less(Num(1), StationMap'.zoom.scale)
               /\ latLonToSvg(Zoomed(StationMap'.zoom), geo.lat, geo.lon) = P
               /\ svgToLatLon(Zoomed(StationMap'.zoom), P.x, P.y) = geo ]_vars

\* C16 witness: zoomTo has just gone from the identity viewport to scale 4 at a
\* point inside the view box.
C16_Witness ==
    /\ lastEvent.op = "zoomTo" /\ pointer.gestures = 1
    /\ lastEvent.arg = << Num(4), [x |-> Num(100), y |-> Num(400)] >>
    /\ StationMap.zoom = [scale |-> Num(4), x |-> Num(75), y |-> Num(300)]

IdentityViewport == [scale |-> Num(1), x |-> Num(0), y |-> Num(0)]

\* C17: in every state minZoom <= scale <= maxZoom, 0 <= zoom.x <= width -
\* width/scale and 0 <= zoom.y <= height - height/scale, so the pan is (0,0) at
\* scale 1; right after the map is opened the viewport is the identity.
C17_ViewportInBounds ==
    LET zoom == StationMap.zoom
    IN  /\ LessEq(Num(minZoom), zoom.scale) /\ LessEq(zoom.scale, Num(maxZoom))
        /\ LessEq(Num(0), zoom.x)
        /\ LessEq(zoom.x, Minus(viewBox.width, Over(viewBox.width, zoom.scale)))
        /\ LessEq(Num(0), zoom.y)
        /\ LessEq(zoom.y, Minus(viewBox.height, Over(viewBox.height, zoom.scale)))
        /\ zoom.scale = Num(1) => zoom = IdentityViewport
        /\ lastEvent.op = "showMap" => zoom = IdentityViewport

\* C17 witness: two fingers have just moved closer together at scale 1, their
\* centre moving with them; the scale and the pan are held at the identity.
C17_Witness ==
    /\ lastEvent.op = "touchMove"
    /\ StationMap.pinch # NullRecord /\ Len(pointer.touches) = 2
    /\ StationMap.pinch.initialScale = Num(1)
    /\ Less(getDistance(pointer.touches), StationMap.pinch.initialDistance)
    /\ getCenter(pointer.touches) # StationMap.pinch.initialCenter
    /\ StationMap.zoom = IdentityViewport

\* C18 (as claimed): a step that closes the map leaves drag null, pinch null and
\* gestureOccurred false, with highlight and tapped cleared and the viewport
\* reset, whichever way the map is closed.
C18_CloseClearsGestureState ==
    [][ ~hidden["map-modal"] /\ hidden'["map-modal"] =>
          /\ StationMap'.highlight = NULL /\ StationMap'.tapped = NULL
          /\ StationMap'.zoom = IdentityViewport
          /\ StationMap'.drag = NullRecord
          /\ StationMap'.pinch = NullRecord
          /\ ~StationMap'.gestureOccurred ]_vars

\* C19: the touchend that leaves no finger on the map leaves drag null, pinch
\* null and gestureOccurred false, whatever touch events came before it.
C19_ReleaseClearsGestureState ==
    [][ lastEvent'.op \in { "tap", "touchEnd" } /\ pointer'.touches = << >> =>
          /\ StationMap'.drag = NullRecord
          /\ StationMap'.pinch = NullRecord
          /\ ~StationMap'.gestureOccurred ]_vars

\* C19 witness: the last finger of a pinch that zoomed in has just been lifted.
C19_Witness ==
    /\ lastEvent.op = "touchEnd" /\ pointer.touches = << >>
    /\ Less(Num(1), StationMap.zoom.scale)
    /\ StationMap.drag = NullRecord /\ StationMap.pinch = NullRecord
    /\ ~StationMap.gestureOccurred

\* The pointer at client is threshold CSS pixels or more from the place the drag
\* began at, along one axis or the other.
DisplacedAtLeast(client, threshold) ==
    \/ LessEq(Num(threshold), MathAbs(Minus(client.clientX, StationMap.drag.startX)))
    \/ LessEq(Num(threshold), MathAbs(Minus(client.clientY, StationMap.drag.startY)))

\* C20 (as claimed): a move of a drag marks the drag moved when the pointer is
\* then 5 px or more (mouse), 10 px or more (touch) from the place of the press
\* along either axis, and otherwise leaves the mark as it was.
C20_MovedAtThreshold ==
    [][ /\ lastEvent'.op = "mouseDrag" =>
              StationMap'.drag.moved =
                  (StationMap.drag.moved
                     \/ DisplacedAtLeast(pointer'.mouse, MOUSE_MOVE_THRESHOLD))
        /\ lastEvent'.op = "touchMove" /\ Len(pointer.touches) = 1
              /\ StationMap.drag # NullRecord =>
              StationMap'.drag.moved =
                  (StationMap.drag.moved
                     \/ DisplacedAtLeast(pointer'.touches[1], TOUCH_MOVE_THRESHOLD)) ]_vars

\* The station a click or a tap on the open map selects, NULL if it selects none:
\* the station of the dot under the mouse, else the highlighted station; the
\* tapped station when the tap is on it again.
MapSelected ==
    IF lastEvent'.op = "click"
    THEN IF isDragging(Cur) THEN NULL
         ELSE IF dotUnder(Cur, pointer.mouse) # NULL THEN dotUnder(Cur, pointer.mouse)
         ELSE StationMap.highlight
    ELSE IF lastEvent'.op = "tap" /\ TappedNear # NULL /\ TappedNear = StationMap.tapped
    THEN TappedNear
    ELSE NULL

\* C21 (as claimed): when a click or a tap on the map selects a station, the view
\* shows that station with no distance, whatever fetches completed while the map
\* was open.
C21_MapSelectionRendersStation ==
    [][ ~hidden["map-modal"] /\ lastEvent'.op \in { "click", "tap" } /\ MapSelected # NULL =>
          /\ ~hidden'["weather"]
          /\ rendered' # NullRecord
          /\ rendered'.station.name = MapSelected
          /\ rendered'.distance = NullDistance ]_vars


\* The stations of the snapshot with finite coordinates within radius (in metres,
\* the bound included) of the place the last call asked about, and the least of
\* their distances.
SnapDistance(station) ==
    haversineDistance(lastEvent.arg.lat.n, lastEvent.arg.lon.n, station.lat, station.lon)
SnapRadius == Over(Num(snapDistance * 1000), StationMap.zoom.scale)
SnapCandidates ==
    { i \in 1..Len(cachedStations.entries) :
        /\ isFinite(cachedStations.entries[i].lat) /\ isFinite(cachedStations.entries[i].lon)
        /\ LessEq(Num(SnapDistance(cachedStations.entries[i])), SnapRadius) }
SnapNearest ==
    CHOOSE i \in SnapCandidates :
        \A j \in SnapCandidates :
            \/ SnapDistance(cachedStations.entries[i]) < SnapDistance(cachedStations.entries[j])
            \/ /\ SnapDistance(cachedStations.entries[i]) = SnapDistance(cachedStations.entries[j])
               /\ i <= j

\* C22 (as claimed): findNearestWithinSnap returns the nearest station with finite
\* coordinates whenever its distance does not exceed snapDistance / scale, and null
\* only when the least distance exceeds that radius.
C22_SnapWithinRadius ==
    lastEvent.op = "findNearestWithinSnap" =>
        IF SnapCandidates = {} THEN lastEvent.out = NULL
        ELSE lastEvent.out = cachedStations.entries[SnapNearest].name

\* The entries of the snapshot with finite coordinates, and the first of them at
\* the least distance from the place lastEvent.arg.
FiniteEntries ==
    { i \in 1..Len(cachedStations.entries) :
        isFinite(cachedStations.entries[i].lat) /\ isFinite(cachedStations.entries[i].lon) }
DistanceTo(i) ==
    haversineDistance(lastEvent.arg.lat, lastEvent.arg.lon,
                      cachedStations.entries[i].lat, cachedStations.entries[i].lon)
FirstNearest ==
    CHOOSE i \in FiniteEntries :
        \A j \in FiniteEntries :
            DistanceTo(i) < DistanceTo(j) \/ (DistanceTo(i) = DistanceTo(j) /\ i <= j)

\* C23 (as claimed): on every snapshot of the DHMZ parser findNearestStation returns
\* the first station at the least distance among those with finite coordinates,
\* with that distance, and null if and only if no station has finite coordinates.
C23_NearestAmongFinite ==
    lastEvent.op = "findNearestStation" =>
        IF FiniteEntries = {} THEN lastEvent.out = NullRecord
        ELSE lastEvent.out = [name |-> cachedStations.entries[FirstNearest].name,
                              distance |-> DistanceTo(FirstNearest)]

\* The names of the stations of the snapshot whose latitude or longitude is not
\* finite.
NonFiniteNames ==
    { cachedStations.entries[i].name : i \in (1..Len(cachedStations.entries)) \ FiniteEntries }

\* The <Grad> elements of xmlDoc that have a name, a data block and a <Temp> other
\* than "" and "-", and no such element of the same name after them.
LastValidGrads(xmlDoc) ==
    LET valid(i) == /\ xmlDoc[i].name # NULL /\ xmlDoc[i].data
                    /\ xmlDoc[i].temp \notin { "", "-" }
    IN  { i \in 1..Len(xmlDoc) :
            valid(i) /\ \A j \in (i + 1)..Len(xmlDoc) :
                           ~(valid(j) /\ xmlDoc[j].name = xmlDoc[i].name) }

\* C24 (as claimed): in the DHMZ variant a station without a finite latitude or
\* longitude is kept in the snapshot and is rendered with no distance when it is
\* selected by name, and neither findNearestStation nor findNearestWithinSnap
\* returns it, nor does it get a dot on the map.
C24_NonFiniteStationByNameOnly ==
    /\ lastEvent.op = "fetchSucceeded" =>
         \A i \in LastValidGrads(lastEvent.arg) :
             LET grad == lastEvent.arg[i]
             IN  ~isFinite(parseFloat(grad.lat)) \/ ~isFinite(parseFloat(grad.lon)) =>
                     grad.name \in NonFiniteNames
    /\ lastEvent.op = "select" /\ lastEvent.arg \in NonFiniteNames =>
         /\ ~hidden["weather"]
         /\ rendered # NullRecord
         /\ rendered.station = Lookup(cachedStations, lastEvent.arg)
         /\ rendered.distance = NullDistance
    /\ lastEvent.op = "findNearestStation" /\ lastEvent.out # NullRecord =>
         lastEvent.out.name \notin NonFiniteNames
    /\ lastEvent.op = "findNearestWithinSnap" => lastEvent.out \notin NonFiniteNames
    /\ StationMap.dots \cap NonFiniteNames = {}

\* C25 (as claimed): every station of a snapshot of the XML parser has a finite
\* temperature; a <Grad> without a name element or a data block, or whose <Temp> is
\* missing, empty, "-" or not a number, does not appear in the snapshot.
C25_ParsedTemperatureIsFinite ==
    /\ cachedStations # NullRecord =>
         \A i \in 1..Len(cachedStations.entries) :
             isFinite(cachedStations.entries[i].temperature)
    /\ lastEvent.op = "fetchSucceeded" =>
         \A i \in 1..Len(cachedStations.entries) :
             \E j \in 1..Len(lastEvent.arg) :
                 LET grad == lastEvent.arg[j]
                 IN  /\ grad.name = cachedStations.entries[i].name
                     /\ grad.data
                     /\ grad.temp \notin { "", "-" }
                     /\ isFinite(parseFloat(grad.temp))

\* Minutes from the measurement of a station to the instant of the parse that
\* lastEvent records.
AgeAtParse(station) == lastEvent.arg.clock - station.measurementTime.minutes
StalenessCeiling == 12 * 60

\* C26 (as claimed): the array-literal parser leaves out every row measured more
\* than 12 hours before the instant of the parse.
C26_OldRowsExcluded ==
    lastEvent.op = "extractAllStations" =>
        \A i \in 1..Len(lastEvent.out.entries) :
            LET station == lastEvent.out.entries[i]
            IN  station.measurementTime # NullRecord => AgeAtParse(station) <= StalenessCeiling

\* C27 (as claimed): every station of the array-literal parser carries a condition
\* phrase that is not null.
C27_ConditionSynthesized ==
    lastEvent.op = "extractAllStations" =>
        \A i \in 1..Len(lastEvent.out.entries) :
            lastEvent.out.entries[i].condition # NULL

\* Places inside the bounding box, its corners among them, and points of the SVG
\* inside and outside the view box.
BoxPlaces ==
    { [lat |-> Num(458), lon |-> Num(159)], [lat |-> bounds.minLat, lon |-> bounds.minLon],
      [lat |-> bounds.maxLat, lon |-> bounds.maxLon],
      [lat |-> Frac(4455, 10), lon |-> Frac(491, 3)] }
SvgPoints ==
    { [x |-> Num(0), y |-> Num(0)], [x |-> Num(100), y |-> Num(238)],
      [x |-> viewBox.width, y |-> viewBox.height], [x |-> Frac(1, 3), y |-> Num(0 - 7)] }

\* C28: in every viewport svgToLatLon takes latLonToSvg of a place inside the
\* bounding box back to the place, and latLonToSvg takes svgToLatLon of a point
\* back to the point.
C28_ProjectionRoundTrip ==
    /\ \A g \in BoxPlaces :
         LET svg == latLonToSvg(Cur, g.lat, g.lon)
         IN  svgToLatLon(Cur, svg.x, svg.y) = g
    /\ \A p \in SvgPoints :
         LET geo == svgToLatLon(Cur, p.x, p.y)
         IN  latLonToSvg(Cur, geo.lat, geo.lon) = p

\* A zoomed and panned viewport, where the place of station A is drawn away from
\* its place in the base map and is taken back to (45.8, 15.9).
C28_Witness ==
    /\ ~StationMap.zoom.scale = Num(1)
    /\ StationMap.zoom.x # Num(0)
    /\ LET svg == latLonToSvg(Cur, Num(458), Num(159))
       IN  /\ svg # latLonToBase(Num(458), Num(159))
           /\ svgToLatLon(Cur, svg.x, svg.y) = [lat |-> Num(458), lon |-> Num(159)]

\* C29: the distance warning is shown exactly when render got a distance and the
\* distance is greater than 20 km; it is hidden for a distance of null and for a
\* distance of 20 km or less.
C29_DistanceWarning ==
    rendered # NullRecord =>
        ( rendered.distanceWarning <=>
              rendered.distance # NullDistance /\ rendered.distance > 20 * 1000 )

\* render has been called with a distance of exactly 20 km and shows no warning.
C29_Witness ==
    /\ lastEvent.op = "render" /\ lastEvent.arg = 20 * 1000
    /\ ~hidden["weather"]
    /\ rendered.distance = 20 * 1000
    /\ ~rendered.distanceWarning

\* C30 (as claimed): in the DHMZ variant, whenever renderSelectedStation runs with
\* 'Najbliza' selected, coordinates cached and a station in the snapshot, it
\* renders a station with its distance, and shows neither the pending status nor
\* a geolocation error.
C30_NearestWithCoordsIsConcrete ==
    [][ ( /\ lastEvent'.sel = NEAREST_LOCATION
          /\ Geolocation'.coords # NullRecord
          /\ cachedStations' # NullRecord
          /\ Len(cachedStations'.entries) > 0 ) =>
            /\ lastEvent'.out = "render"
            /\ ~hidden'["weather"] /\ hidden'["status"] /\ hidden'["error"]
            /\ rendered' # NullRecord
            /\ rendered'.distance # NullDistance ]_vars

\* C31: after every handler, if the snapshot has a station, the selection that
\* getSelectedLocation reads is 'Najbliza' or the name of a station of the
\* snapshot.
C31_SelectionNamesSnapshotStation ==
    NonEmptySnapshot =>
        getSelectedLocation(Cur) \in { NEAREST_LOCATION } \cup ObjectKeys(cachedStations)

\* A fetch has delivered a snapshot without the stored station, and the selection
\* has been demoted to 'Najbliza'.
C31_Witness ==
    /\ lastEvent.op = "fetchSucceeded"
    /\ lastEvent.sel \in { "A", "B" }
    /\ NonEmptySnapshot
    /\ lastEvent.sel \notin ObjectKeys(cachedStations)
    /\ localStorage = NEAREST_LOCATION

\* The events in which the user picks a location: in the dropdown, or by a click
\* or a tap on the map.
UserPicks == { "select", "click", "tap" }

\* C32: the stored selection changes only in a pick of the user, in the demotion
\* of a name absent from the snapshot to 'Najbliza', and in the first geolocation
\* success with nothing stored; neither a geolocation callback nor the end of a
\* fetch replaces a stored name of a station of the snapshot.
C32_SelectionChangesOnlyByPickOrDemotion ==
    [][ /\ localStorage' # localStorage =>
              \/ lastEvent'.op \in UserPicks
              \/ /\ localStorage' = NEAREST_LOCATION
                 /\ lastEvent'.sel = localStorage
                 /\ NonEmptySnapshot'
                 /\ localStorage \notin ObjectKeys(cachedStations')
              \/ /\ lastEvent'.op = "geoSuccess"
                 /\ localStorage = NULL
                 /\ localStorage' = NEAREST_LOCATION
        /\ ( /\ lastEvent'.op \in { "geoSuccess", "geoError", "fetchSucceeded", "fetchFailed" }
             /\ Snapshot'
             /\ localStorage \in ObjectKeys(cachedStations') ) =>
              localStorage' = localStorage ]_vars

\* A position has arrived while station A of the snapshot is stored, and A is
\* still stored.
C32_Witness ==
    /\ lastEvent.op = "geoSuccess"
    /\ Geolocation.coords # NullRecord
    /\ NonEmptySnapshot
    /\ localStorage = "A" /\ "A" \in ObjectKeys(cachedStations)

\* An overlay, the dropdown or the map, is open.
OverlayOpen == isOpen(Cur) \/ StationMapIsOpen(Cur)

\* C33 (as claimed): once no popstate is pending, the app has pushed one history
\* entry if the dropdown or the map is open and none otherwise; and the popstate
\* of a history.back() of the app closes no overlay.
C33_HistoryBalanced ==
    [][ /\ history'.pending = 0 => history'.depth = IF OverlayOpen' THEN 1 ELSE 0
        /\ history'.pending < history.pending => (OverlayOpen' <=> OverlayOpen) ]_vars

\* The pending status or a geolocation error is on screen.
GeolocationStateShown ==
    \/ ~hidden["status"]
    \/ ~hidden["error"] /\ errorMessage \in { MsgDenied, MsgUnavailable }

\* C34 (as claimed): from the cancel of the pending status until 'Najbliza' is
\* selected again, that is while cancelledByUser is true, neither the pending
\* status nor a geolocation error is on screen, whatever fails or completes.
C34_CancelKeepsGeolocationStateOff ==
    Geolocation.cancelledByUser => ~GeolocationStateShown

\* C35: when the last finger of a touch sequence is lifted and two fingers were
\* down together in the sequence, or a drag of one finger was marked moved, the
\* lift is no tap: tapped is as before, no station is selected and the map stays
\* as open as it was.
C35_GestureNeverEndsInTap ==
    [][ ( /\ pointer.sequence = "gesture"
          /\ pointer'.touches = << >> ) =>
            /\ StationMap'.tapped = StationMap.tapped
            /\ localStorage' = localStorage
            /\ hidden'["map-modal"] = hidden["map-modal"]
            /\ hidden'["station-label"] = hidden["station-label"]
            /\ rendered' = rendered ]_vars

\* The last finger of a pinch has been lifted over a station that the tap before
\* the pinch had marked: the station is still marked and the map is open.
C35_Witness ==
    /\ lastEvent.op = "touchEnd" /\ lastEvent.arg = "gesture"
    /\ pointer.touches = << >> /\ pointer.sequence = "none"
    /\ StationMap.tapped # NULL
    /\ ~hidden["map-modal"]
    /\ ~StationMap.gestureOccurred

\* A step of the click listener of #condition-container.
ConditionTapped == lastEvent'.op = "tap" /\ lastEvent'.arg \in { "started", "skipped" }

\* C36: a tap on the condition container always starts a feed fetch, whatever
\* the state of the widget: after the tap one more fetch is awaiting its response
\* and lastRefresh is the instant of the tap.
C36_ConditionTapAlwaysFetches ==
    [][ ConditionTapped =>
            /\ Len(fetches') = Len(fetches) + 1
            /\ lastRefresh' = now ]_vars

\* A step that calls fetchWeatherData with nothing to hold it back but a fetch
\* in progress: the timer, a tap on the condition container, or refreshIfStale
\* later than THROTTLE_MS after the latest start.
FetchTriggered ==
    \/ lastEvent'.op = "timer"
    \/ ConditionTapped
    \/ lastEvent'.op = "refreshIfStale" /\ now - lastRefresh > THROTTLE_MS

\* C37: fetchInProgress is true exactly while a fetch awaits or processes its
\* response; a step that ends a fetch, by success or by any failure, leaves it
\* false; and a trigger that finds no fetch under way starts one.
C37_FetchInProgressTracksFetches ==
    [][ /\ fetchInProgress <=> fetches # << >>
        /\ fetchInProgress' <=> fetches' # << >>
        /\ Len(fetches') < Len(fetches) => ~fetchInProgress'
        /\ FetchTriggered /\ fetches = << >> =>
              fetches' = << "fetch" >> /\ fetchInProgress' ]_vars

\* C37 witness: a fetch has failed with a snapshot on screen (the toast is
\* shown), and the timer has started the next fetch.
C37_Witness ==
    /\ lastEvent.op = "timer" /\ lastEvent.arg = "started"
    /\ ~hidden["toast"]
    /\ fetchInProgress /\ fetches = << "fetch" >>

\* C38: for every time string parseMeasurementTime accepts, the measurement
\* time it returns is not later than the instant of the parse.
C38_MeasurementTimeNotInFuture ==
    lastEvent.op = "extractAllStations" =>
        \A i \in 1..Len(lastEvent.out.entries) :
            LET measurementTime == lastEvent.out.entries[i].measurementTime
            IN  measurementTime # NullRecord =>
                    measurementTime.minutes <= lastEvent.arg.clock

\* C39: in every reachable state, Geolocation.status = 'granted' implies that
\* Geolocation.coords is not null.
C39_GrantedHasCoords ==
    Geolocation.status = "granted" => Geolocation.coords # NullRecord

\* C39 witness: the first position has arrived: the status is 'granted' and the
\* coordinates are cached; no request is pending.
C39_Witness ==
    /\ lastEvent.op = "geoSuccess"
    /\ Geolocation.status = "granted"
    /\ Geolocation.coords # NullRecord
    /\ geoRequests = 0


====
